---- MODULE Spec2Model ----
(***************************************************************************)
(* A model of simpledb's buffer manager (src/src/buffer_manager.cc) and of *)
(* the B+tree built on it (src/include/simpledb/btree.h).                  *)
(*                                                                         *)
(* SpecBM   : threads call fix_page / unfix_page directly; fix_page is     *)
(*            modelled step by step, one step per latch acquisition.       *)
(* SpecSeq  : one thread runs lookup / insert / erase on a tree.           *)
(* SpecFull : as SpecSeq, with a buffer of two frames.                     *)
(* SpecConc : two threads insert disjoint keys into one tree.              *)
(* In the tree specifications a fix_page call is one step.                 *)
(*                                                                         *)
(* The sections of the code that run under fifoListLatch and lruListLatch  *)
(* are single steps: inside them the code blocks on nothing but these two  *)
(* latches, which it always takes in the order FIFO, LRU, and it probes    *)
(* page latches with try_lock only.  The same holds for pageTableLatch.    *)
(***************************************************************************)
EXTENDS Integers, Sequences, FiniteSets, TLC

\* ------------------------------------------------------------ bounds
\* number of client threads of SpecBM
MaxThreads == 2
\* number of page ids of SpecBM
MaxPid == 2
\* page_count of the buffer manager of SpecBM
PageCountBM == 1
\* values a client writes into a page
MaxVal == 1
\* number of page ids and page_count of SpecOne
MaxPidOne == 4
PageCountOne == 3
\* number of page ids the client of SpecOne writes to
MaxDirtyPid == 2
\* SpecHold: the number of pages a client has fixed at most at any instant
MaxHeld == 1
\* SpecNode: the longest range, the largest element, the largest page size (as a power of two)
MaxLen == 4
MaxElem == 4
MaxPageSizeLog == 7

\* the tree specifications: the keys are 1..MaxKey, the values 1..MaxValue, a
\* leaf holds LeafCapacity entries, an inner node InnerCapacity children, and
\* create_new_node mints at most MaxNodes page ids
MaxKey == 5
MaxKeySeq == 3
MaxLiveKey == 4
MaxLookKeys == 2
MaxValue == 2
LeafCapacity == 2
InnerCapacity == 3
MaxNodes == 9
\* page_count of the buffer manager under the tree, per specification
PageCountSeq == 3
PageCountFull == 1
PageCountConc == 6

Threads == 1..MaxThreads
Keys == 1..MaxKey
SeqKeys == 1..MaxKeySeq
Values == 1..MaxValue

\* A page id is segment_id : 16 | segment_page_id : 48.
MakePid(seg, idx) == <<seg, idx>>
get_segment_id(page_id) == page_id[1]
get_segment_page_id(page_id) == page_id[2]

\* The segment of every page of the model.
segment_id == 0

Pids == {MakePid(segment_id, i) : i \in 0..(MaxPid - 1)}

NullFrame == <<>>

\* Page contents: a node header and its arrays.
Page(level, count, keys, vals, children) ==
    [level |-> level, count |-> count, keys |-> keys, vals |-> vals, children |-> children]

\* A page of a freshly resized segment file: all bytes zero.
ZeroPage == Page(0, 0, <<>>, <<>>, <<>>)

\* The bytes a client of SpecBM writes: value v in the header.
Bytes(v) == Page(0, v, <<>>, <<>>, <<>>)

VARIABLES
    pageCount,      \* BufferManager::pageCount
    pageTable,      \* BufferManager::pageTable: the pids that have a frame
    pageState,      \* BufferFrame::pageState, per pid
    isDirty,        \* BufferFrame::isDirty
    dataPtr,        \* BufferFrame::data as a pointer: "null", "valid" or "freed"
    data,           \* the buffer BufferFrame::data points to
    disk,           \* the segment file, per pid
    pageLatch,      \* BufferFrame::pageLatch: [x: exclusive holders, s: shared holders]
    loadingLatch,   \* BufferFrame::loadingLatch: the set of holders
    fifoList,       \* BufferManager::fifoList
    lruList,        \* BufferManager::lruList
    pc,             \* per thread: where it is
    call,           \* per thread: the running fix_page call
    held,           \* per thread: the frames it has fixed, pid -> "-", "S", "X"
    root,           \* BTree::root
    nodeCount,      \* BTree::nodeCount
    treeHeight,     \* BTree::treeHeight
    tl,             \* per thread: the locals of the running tree operation
    model           \* the map the completed inserts and erases describe, 0 = no entry

bmVars == <<pageCount, pageTable, pageState, isDirty, dataPtr, data, disk, pageLatch,
            loadingLatch, fifoList, lruList>>
treeVars == <<root, nodeCount, treeHeight, tl, model>>
vars == <<bmVars, pc, call, held, treeVars>>

\* ------------------------------------------------------------ latches
Latch == [x |-> {}, s |-> {}]
\* try_lock that succeeds on a latch held shared.
CanLock_ignoreShared(l) == l.x = {}
CanLock(l) == l.x = {} /\ l.s = {}
CanLockShared(l) == l.x = {}
Lock(l, t) == [l EXCEPT !.x = {t}]
LockShared(l, t) == [l EXCEPT !.s = @ \cup {t}]
\* pageLatch.unlock(), which the code calls for exclusive and for shared holds
\* alike: on a std::shared_mutex over pthread_rwlock_t it releases the hold the
\* caller has, whichever it is.
Unlock(l, t) == [x |-> l.x \ {t}, s |-> l.s \ {t}]
Holds(l, t) == t \in l.x \/ t \in l.s

\* The locals of a tree operation.  pre records, for the properties, what held when
\* the operation started.
NoOp == [op |-> "none", key |-> 0, value |-> 0, exclusive |-> FALSE,
         parentFrame |-> NullFrame, currentFrame |-> NullFrame, mode |-> FALSE,
         child |-> NullFrame, rightBf |-> NullFrame, splitKey |-> 0, newRoot |-> NullFrame,
         ret |-> 0,
         pre |-> [present |-> FALSE, nodes |-> 0, count |-> 0, contents |-> <<>>]]

Remove(seq, e) == SelectSeq(seq, LAMBDA y : y # e)
InSeq(seq, e) == \E i \in 1..Len(seq) : seq[i] = e

\* ------------------------------------------------------------ fix_page, step by step
Idle(t) == pc[t] = "idle"
Goto(t, label) == pc' = [pc EXCEPT ![t] = label]

\* The locals of a fix_page call.  released, touched and scanned record what
\* the call did: the release it called on the page latch, whether it changed
\* a list, whether its own scan for a victim failed.  latches holds the latches
\* of the buffer manager the call holds, as <<latch, mode>>.
NoCall == [page_id |-> NullFrame, exclusive |-> FALSE, bf |-> NullFrame,
           released |-> "none", touched |-> FALSE, scanned |-> FALSE, latches |-> {}]

Loaded(p) == pageState[p] = "IN_FIFO" \/ pageState[p] = "IN_LRU"

\* fix_page returns: the caller now holds the frame in the mode it asked for.
Return(t) ==
    /\ held' = [held EXCEPT ![t][call[t].page_id] = IF call[t].exclusive THEN "X" ELSE "S"]
    /\ call' = [call EXCEPT ![t] = NoCall]
    /\ Goto(t, "idle")

\* fix_page is entered with its arguments.
fix_page(t, page_id, exclusive) ==
    /\ Idle(t)
    /\ held[t][page_id] = "-"
    /\ call' = [call EXCEPT ![t] = [NoCall EXCEPT !.page_id = page_id, !.exclusive = exclusive]]
    /\ Goto(t, "getBufferFrame")
    /\ UNCHANGED <<bmVars, held>>

\* getBufferFrame: the lookup under the shared page-table latch.
getBufferFrame(t) ==
    /\ pc[t] = "getBufferFrame"
    /\ Goto(t, IF call[t].page_id \in pageTable THEN "fix_lock" ELSE "getBufferFrame_insert")
    /\ UNCHANGED <<bmVars, call, held>>

\* getBufferFrame: the miss path under the exclusive page-table latch; the
\* emplaced frame is NOT_LOADED, clean, with a null data pointer.
getBufferFrame_insert(t) ==
    /\ pc[t] = "getBufferFrame_insert"
    /\ pageTable' = pageTable \cup {call[t].page_id}
    /\ Goto(t, "fix_lock")
    /\ UNCHANGED <<pageCount, pageState, isDirty, dataPtr, data, disk, pageLatch, loadingLatch,
                   fifoList, lruList, call, held>>

\* fix_page: acquire the page latch in the given mode.
fix_lock(t) ==
    /\ pc[t] = "fix_lock"
    /\ LET p == call[t].page_id IN
         IF call[t].exclusive
         THEN /\ CanLock(pageLatch[p])
              /\ pageLatch' = [pageLatch EXCEPT ![p] = Lock(@, t)]
         ELSE /\ CanLockShared(pageLatch[p])
              /\ pageLatch' = [pageLatch EXCEPT ![p] = LockShared(@, t)]
    /\ Goto(t, "fix_switch")
    /\ UNCHANGED <<pageCount, pageTable, pageState, isDirty, dataPtr, data, disk, loadingLatch,
                   fifoList, lruList, call, held>>

\* fix_page: switch (frame->pageState).
fix_switch(t) ==
    /\ pc[t] = "fix_switch"
    /\ Goto(t, CASE pageState[call[t].page_id] = "IN_FIFO" -> "fix_in_fifo"
                 [] pageState[call[t].page_id] = "IN_LRU" -> "fix_in_lru"
                 [] pageState[call[t].page_id] = "NOT_LOADED" -> "loadPage"
                 [] pageState[call[t].page_id] = "LOADING" -> "fix_loading")
    /\ UNCHANGED <<bmVars, call, held>>

\* updateLru that reinserts the frame at the front of the list.
updateLru_front(list, frame) == <<frame>> \o Remove(list, frame)

\* updateLru: erase the frame from the LRU list and push it to the back.
updateLru(list, frame) == Append(Remove(list, frame), frame)

\* case IN_FIFO without the second look at the state under the list latches.
fix_in_fifo_nocheck(t) ==
    /\ pc[t] = "fix_in_fifo"
    /\ fifoList' = Remove(fifoList, call[t].page_id)
    /\ lruList' = Append(lruList, call[t].page_id)
    /\ pageState' = [pageState EXCEPT ![call[t].page_id] = "IN_LRU"]
    /\ Return(t)
    /\ UNCHANGED <<pageCount, pageTable, isDirty, dataPtr, data, disk, pageLatch, loadingLatch>>

\* case IN_FIFO that returns the frame and leaves it in the FIFO list.
fix_in_fifo_stay(t) ==
    /\ pc[t] = "fix_in_fifo"
    /\ Return(t)
    /\ UNCHANGED bmVars

\* case IN_FIFO: under both list latches move the frame from FIFO to LRU, or
\* update LRU when it has been moved in the meantime.
fix_in_fifo(t) ==
    /\ pc[t] = "fix_in_fifo"
    /\ LET p == call[t].page_id IN
         IF pageState[p] = "IN_LRU"
         THEN /\ lruList' = updateLru(lruList, p)
              /\ UNCHANGED <<fifoList, pageState>>
         ELSE /\ fifoList' = Remove(fifoList, p)
              /\ lruList' = Append(lruList, p)
              /\ pageState' = [pageState EXCEPT ![p] = "IN_LRU"]
    /\ Return(t)
    /\ UNCHANGED <<pageCount, pageTable, isDirty, dataPtr, data, disk, pageLatch, loadingLatch>>

\* case IN_LRU: under the LRU latch move the frame to the back of LRU.
fix_in_lru(t) ==
    /\ pc[t] = "fix_in_lru"
    /\ lruList' = updateLru(lruList, call[t].page_id)
    /\ Return(t)
    /\ UNCHANGED <<pageCount, pageTable, pageState, isDirty, dataPtr, data, disk, pageLatch,
                   loadingLatch, fifoList>>

\* case LOADING: wait for the loader on the loading latch, then look at the state.
fix_loading(t) ==
    /\ pc[t] = "fix_loading"
    /\ loadingLatch[call[t].page_id] = {}
    /\ IF Loaded(call[t].page_id)
       THEN Return(t)
       ELSE Goto(t, "fix_unlock_throw") /\ UNCHANGED <<held, call>>
    /\ UNCHANGED bmVars

\* fix_page: frame->pageLatch.unlock(); throw buffer_full_error().
fix_unlock_throw(t) ==
    /\ pc[t] = "fix_unlock_throw"
    /\ pageLatch' = [pageLatch EXCEPT ![call[t].page_id] = Unlock(@, t)]
    /\ call' = [call EXCEPT ![t].released = "unlock"]
    /\ Goto(t, "buffer_full_error")
    /\ UNCHANGED <<pageCount, pageTable, pageState, isDirty, dataPtr, data, disk,
                   loadingLatch, fifoList, lruList, held>>

\* loadPage that does not look at the state again under the loading latch.
loadPage_norecheck(t) ==
    /\ pc[t] = "loadPage"
    /\ LET p == call[t].page_id IN
         /\ loadingLatch[p] = {}
         /\ pageState' = [pageState EXCEPT ![p] = "LOADING"]
         /\ loadingLatch' = [loadingLatch EXCEPT ![p] = {t}]
         /\ Goto(t, "insertBufferFrame")
         /\ UNCHANGED <<held, call>>
    /\ UNCHANGED <<pageCount, pageTable, isDirty, dataPtr, data, disk, pageLatch, fifoList, lruList>>

\* loadPage up to the call of insertBufferFrame: take the loading latch, return
\* when somebody else has loaded the page, otherwise mark the frame LOADING.
loadPage(t) ==
    /\ pc[t] = "loadPage"
    /\ LET p == call[t].page_id IN
         /\ loadingLatch[p] = {}
         /\ CASE pageState[p] = "LOADING" ->
                   /\ loadingLatch' = [loadingLatch EXCEPT ![p] = {t}]
                   /\ Goto(t, "runtime_error")
                   /\ UNCHANGED <<pageState, held, call>>
              [] Loaded(p) ->
                   /\ Return(t)
                   /\ UNCHANGED <<pageState, loadingLatch>>
              [] OTHER ->
                   /\ pageState' = [pageState EXCEPT ![p] = "LOADING"]
                   /\ loadingLatch' = [loadingLatch EXCEPT ![p] = {t}]
                   /\ Goto(t, "insertBufferFrame")
                   /\ UNCHANGED <<held, call>>
    /\ UNCHANGED <<pageCount, pageTable, isDirty, dataPtr, data, disk, pageLatch, fifoList, lruList>>

Min(S) == CHOOSE i \in S : \A j \in S : i <= j

\* lockEvictableFrame without try_lock: the first frame of the list, latched or not.
lockEvictableFrame_first(frameList) == IF Len(frameList) > 0 THEN 1 ELSE 0

\* lockEvictableFrame that scans the list from the back.
lockEvictableFrame_last(frameList) ==
    LET free == {i \in 1..Len(frameList) : pageLatch[frameList[i]].x = {} /\ pageLatch[frameList[i]].s = {}}
    IN IF free = {} THEN 0 ELSE CHOOSE i \in free : \A j \in free : j <= i

\* lockEvictableFrame that finds nothing.
lockEvictableFrame_none(frameList) == 0

\* lockEvictableFrame: the index of the first frame of the list whose page latch
\* try_lock acquires, 0 when there is none (the source counts from 0 and
\* returns -1).  try_lock fails on a latch held in any mode, by any thread.
lockEvictableFrame(frameList) ==
    LET free == {i \in 1..Len(frameList) : CanLock(pageLatch[frameList[i]])}
    IN IF free = {} THEN 0 ELSE Min(free)

\* The capacity check with <= for <.
HasFreeSpace_orEqual == Len(fifoList) + Len(lruList) <= pageCount

\* if (fifoList.size() + lruList.size() < pageCount)
HasFreeSpace == Len(fifoList) + Len(lruList) < pageCount

\* insertBufferFrame, under the FIFO latch (and the LRU latch where the code
\* takes it): push the frame when there is space, else pick a victim in FIFO,
\* else in LRU, else fail.  The victim stays latched exclusively by the caller.
insertBufferFrame(t) ==
    /\ pc[t] = "insertBufferFrame"
    /\ LET p == call[t].page_id
           i == lockEvictableFrame(fifoList)
           j == lockEvictableFrame(lruList)
       IN CASE HasFreeSpace ->
                 /\ fifoList' = Append(fifoList, p)
                 /\ call' = [call EXCEPT ![t].touched = TRUE]
                 /\ Goto(t, "loadPage_data")
                 /\ UNCHANGED <<lruList, pageLatch>>
            [] ~HasFreeSpace /\ i # 0 ->
                 /\ pageLatch' = [pageLatch EXCEPT ![fifoList[i]] = Lock(@, t)]
                 /\ fifoList' = Append(Remove(fifoList, fifoList[i]), p)
                 /\ call' = [call EXCEPT ![t].touched = TRUE, ![t].bf = fifoList[i]]
                 /\ Goto(t, "insertBufferFrame_evict")
                 /\ UNCHANGED lruList
            [] ~HasFreeSpace /\ i = 0 /\ j # 0 ->
                 /\ pageLatch' = [pageLatch EXCEPT ![lruList[j]] = Lock(@, t)]
                 /\ lruList' = Remove(lruList, lruList[j])
                 /\ fifoList' = Append(fifoList, p)
                 /\ call' = [call EXCEPT ![t].touched = TRUE, ![t].bf = lruList[j]]
                 /\ Goto(t, "insertBufferFrame_evict")
            [] OTHER ->
                 /\ call' = [call EXCEPT ![t].scanned = TRUE]
                 /\ Goto(t, "loadPage_fail")
                 /\ UNCHANGED <<fifoList, lruList, pageLatch>>
    /\ UNCHANGED <<pageCount, pageTable, pageState, isDirty, dataPtr, data, disk, loadingLatch, held>>

\* flushPage that writes nothing.
flushPage_skip(d, frame) == d

\* flushPage: write the page to its place in the segment file, clear the dirty bit.
flushPage(d, frame) == [d EXCEPT ![frame] = data[frame]]

\* insertBufferFrame after the list latches are released: flush the victim when
\* it is dirty, mark it NOT_LOADED, free its buffer, release its page latch.
insertBufferFrame_evict(t) ==
    /\ pc[t] = "insertBufferFrame_evict"
    /\ LET bf == call[t].bf IN
         /\ disk' = IF isDirty[bf] THEN flushPage(disk, bf) ELSE disk
         /\ isDirty' = [isDirty EXCEPT ![bf] = FALSE]
         /\ pageState' = [pageState EXCEPT ![bf] = "NOT_LOADED"]
         /\ dataPtr' = [dataPtr EXCEPT ![bf] = "freed"]
         /\ data' = [data EXCEPT ![bf] = ZeroPage]
         /\ pageLatch' = [pageLatch EXCEPT ![bf] = Unlock(@, t)]
    /\ call' = [call EXCEPT ![t].bf = NullFrame]
    /\ Goto(t, "loadPage_data")
    /\ UNCHANGED <<pageCount, pageTable, loadingLatch, fifoList, lruList, held>>

\* getSegmentData: the bytes of the page in the segment file.
getSegmentData(pid) == disk[pid]

\* loadPage after insertBufferFrame returned true: read the page into a new
\* buffer, mark the frame IN_FIFO, release the loading latch.
loadPage_data(t) ==
    /\ pc[t] = "loadPage_data"
    /\ LET p == call[t].page_id IN
         /\ data' = [data EXCEPT ![p] = getSegmentData(p)]
         /\ dataPtr' = [dataPtr EXCEPT ![p] = "valid"]
         /\ pageState' = [pageState EXCEPT ![p] = "IN_FIFO"]
         /\ loadingLatch' = [loadingLatch EXCEPT ![p] = {}]
    /\ Return(t)
    /\ UNCHANGED <<pageCount, pageTable, isDirty, disk, pageLatch, fifoList, lruList>>

\* loadPage after insertBufferFrame returned false: back to NOT_LOADED.
loadPage_fail(t) ==
    /\ pc[t] = "loadPage_fail"
    /\ LET p == call[t].page_id IN
         /\ pageState' = [pageState EXCEPT ![p] = "NOT_LOADED"]
         /\ loadingLatch' = [loadingLatch EXCEPT ![p] = {}]
    /\ Goto(t, "fix_unlock_throw")
    /\ UNCHANGED <<pageCount, pageTable, isDirty, dataPtr, data, disk, pageLatch, fifoList,
                   lruList, call, held>>

\* unfix_page: page.isDirty = page.isDirty || is_dirty; page.pageLatch.unlock().
unfix_page(t, page, is_dirty) ==
    /\ isDirty' = [isDirty EXCEPT ![page] = @ \/ is_dirty]
    /\ pageLatch' = [pageLatch EXCEPT ![page] = Unlock(@, t)]
    /\ held' = [held EXCEPT ![t][page] = "-"]

\* ------------------------------------------------------------ SpecBM: the clients
\* A client fixes a page it does not hold.
BM_Fix(t) == \E p \in Pids, exclusive \in BOOLEAN : fix_page(t, p, exclusive)

\* A client unfixes a page it fixed shared, or fixed exclusively without writing.
BM_UnfixClean(t) ==
    /\ Idle(t)
    /\ \E p \in Pids :
         /\ held[t][p] # "-"
         /\ unfix_page(t, p, FALSE)
    /\ UNCHANGED <<pageCount, pageTable, pageState, dataPtr, data, disk, loadingLatch,
                   fifoList, lruList, pc, call>>

\* A client writes a page it fixed exclusively and unfixes it dirty.
BM_UnfixDirty(t) ==
    /\ Idle(t)
    /\ \E p \in Pids, v \in 1..MaxVal :
         /\ held[t][p] = "X"
         /\ data' = [data EXCEPT ![p] = Bytes(v)]
         /\ unfix_page(t, p, TRUE)
    /\ UNCHANGED <<pageCount, pageTable, pageState, dataPtr, disk, loadingLatch,
                   fifoList, lruList, pc, call>>

\* A client catches buffer_full_error.
BM_Catch(t) ==
    /\ pc[t] = "buffer_full_error"
    /\ call' = [call EXCEPT ![t] = NoCall]
    /\ Goto(t, "idle")
    /\ UNCHANGED <<bmVars, held>>

InitBM ==
    /\ pageCount = PageCountBM
    /\ pageTable = {}
    /\ pageState = [p \in Pids |-> "NOT_LOADED"]
    /\ isDirty = [p \in Pids |-> FALSE]
    /\ dataPtr = [p \in Pids |-> "null"]
    /\ data = [p \in Pids |-> ZeroPage]
    /\ disk = [p \in Pids |-> ZeroPage]
    /\ pageLatch = [p \in Pids |-> Latch]
    /\ loadingLatch = [p \in Pids |-> {}]
    /\ fifoList = <<>>
    /\ lruList = <<>>
    /\ pc = [t \in Threads |-> "idle"]
    /\ call = [t \in Threads |-> NoCall]
    /\ held = [t \in Threads |-> [p \in Pids |-> "-"]]
    /\ root = NullFrame
    /\ nodeCount = 0
    /\ treeHeight = 0
    /\ tl = [t \in Threads |-> NoOp]
    /\ model = [k \in Keys |-> 0]

FixStep(t) ==
    \/ getBufferFrame(t)
    \/ getBufferFrame_insert(t)
    \/ fix_lock(t)
    \/ fix_switch(t)
    \/ fix_in_fifo(t)
    \/ fix_in_lru(t)
    \/ fix_loading(t)
    \/ fix_unlock_throw(t)
    \/ loadPage(t)
    \/ insertBufferFrame(t)
    \/ insertBufferFrame_evict(t)
    \/ loadPage_data(t)
    \/ loadPage_fail(t)

NextBM ==
    /\ \E t \in Threads :
           \/ BM_Fix(t)
           \/ BM_UnfixClean(t)
           \/ BM_UnfixDirty(t)
           \/ BM_Catch(t)
           \/ FixStep(t)
    /\ UNCHANGED treeVars

SpecBM == InitBM /\ [][NextBM]_vars

\* ------------------------------------------------------------ SpecOne: one client thread
OnePids == {MakePid(segment_id, i) : i \in 0..(MaxPidOne - 1)}

DirtyPids == {MakePid(segment_id, i) : i \in 0..(MaxDirtyPid - 1)}

One_Fix == \E p \in OnePids, exclusive \in BOOLEAN : fix_page(1, p, exclusive)

One_UnfixClean ==
    /\ Idle(1)
    /\ \E p \in OnePids :
         /\ held[1][p] # "-"
         /\ unfix_page(1, p, FALSE)
    /\ UNCHANGED <<pageCount, pageTable, pageState, dataPtr, data, disk, loadingLatch,
                   fifoList, lruList, pc, call>>

One_UnfixDirty ==
    /\ Idle(1)
    /\ \E p \in DirtyPids, v \in 1..MaxVal :
         /\ held[1][p] = "X"
         /\ data' = [data EXCEPT ![p] = Bytes(v)]
         /\ unfix_page(1, p, TRUE)
    /\ UNCHANGED <<pageCount, pageTable, pageState, dataPtr, disk, loadingLatch,
                   fifoList, lruList, pc, call>>

\* The frames of a list, as a set.
Range(seq) == {seq[i] : i \in 1..Len(seq)}

\* ~BufferManager that walks the FIFO list only.
BufferManager_destroy_fifo(t) ==
    /\ \A u \in Threads : Idle(u) /\ \A p \in DOMAIN pageLatch : held[u][p] = "-"
    /\ disk' = [p \in DOMAIN disk |->
                  IF p \in Range(fifoList) /\ isDirty[p] THEN data[p] ELSE disk[p]]
    /\ isDirty' = [p \in DOMAIN isDirty |-> isDirty[p] /\ p \notin Range(fifoList)]
    /\ dataPtr' = [p \in DOMAIN dataPtr |-> IF p \in Range(fifoList) THEN "freed" ELSE dataPtr[p]]
    /\ Goto(t, "destroyed")
    /\ UNCHANGED <<pageCount, pageTable, pageState, data, pageLatch, loadingLatch,
                   fifoList, lruList, call, held>>

\* ~BufferManager, run when no call is in progress and no frame is fixed: for
\* every frame of FIFO, then of LRU, take its page latch, flush it when it is
\* dirty, free its buffer, release the latch.  The lists and the states of the
\* frames stay as they are.
BufferManager_destroy(t) ==
    /\ \A u \in Threads : Idle(u) /\ \A p \in DOMAIN pageLatch : held[u][p] = "-"
    /\ \A p \in Range(fifoList) \cup Range(lruList) : CanLock(pageLatch[p])
    /\ LET resident == Range(fifoList) \cup Range(lruList)
       IN /\ disk' = [p \in DOMAIN disk |->
                        IF p \in resident /\ isDirty[p] THEN flushPage(disk, p)[p] ELSE disk[p]]
          /\ isDirty' = [p \in DOMAIN isDirty |-> isDirty[p] /\ p \notin resident]
          /\ dataPtr' = [p \in DOMAIN dataPtr |-> IF p \in resident THEN "freed" ELSE dataPtr[p]]
    /\ Goto(t, "destroyed")
    /\ UNCHANGED <<pageCount, pageTable, pageState, data, pageLatch, loadingLatch,
                   fifoList, lruList, call, held>>

InitOne ==
    /\ pageCount = PageCountOne
    /\ pageTable = {}
    /\ pageState = [p \in OnePids |-> "NOT_LOADED"]
    /\ isDirty = [p \in OnePids |-> FALSE]
    /\ dataPtr = [p \in OnePids |-> "null"]
    /\ data = [p \in OnePids |-> ZeroPage]
    /\ disk = [p \in OnePids |-> ZeroPage]
    /\ pageLatch = [p \in OnePids |-> Latch]
    /\ loadingLatch = [p \in OnePids |-> {}]
    /\ fifoList = <<>>
    /\ lruList = <<>>
    /\ pc = [t \in Threads |-> "idle"]
    /\ call = [t \in Threads |-> NoCall]
    /\ held = [t \in Threads |-> [p \in OnePids |-> "-"]]
    /\ root = NullFrame
    /\ nodeCount = 0
    /\ treeHeight = 0
    /\ tl = [t \in Threads |-> NoOp]
    /\ model = [k \in Keys |-> 0]

NextOne ==
    /\ \/ One_Fix
       \/ One_UnfixClean
       \/ One_UnfixDirty
       \/ BM_Catch(1)
       \/ FixStep(1)
       \/ BufferManager_destroy(1)
    /\ UNCHANGED treeVars

SpecOne == InitOne /\ [][NextOne]_vars

\* ------------------------------------------------------------ SpecLatch: fix_page, latch by latch
\* The latches of the buffer manager: pageTableLatch, fifoListLatch, lruListLatch.
\* A latch is held by the calls that have it in their latches.
HoldsLatch(t, l) == \E m \in {"X", "S"} : <<l, m>> \in call[t].latches

\* lock() and lock_shared() return.
CanLockLatch(l, m) ==
    \A u \in Threads :
        IF m = "X" THEN ~HoldsLatch(u, l) ELSE <<l, "X">> \notin call[u].latches

LockLatch(c, l, m) == [c EXCEPT !.latches = @ \cup {<<l, m>>}]
UnlockLatch(c, l) == [c EXCEPT !.latches = {h \in @ : h[1] # l}]

\* getBufferFrame: pageTableLatch.lock_shared().
getBufferFrame_lock_shared(t) ==
    /\ pc[t] = "getBufferFrame"
    /\ CanLockLatch("pageTableLatch", "S")
    /\ call' = [call EXCEPT ![t] = LockLatch(@, "pageTableLatch", "S")]
    /\ Goto(t, "getBufferFrame_contains")
    /\ UNCHANGED <<bmVars, held>>

\* getBufferFrame: pageTable.contains(pageId), then unlock_shared().
getBufferFrame_contains(t) ==
    /\ pc[t] = "getBufferFrame_contains"
    /\ call' = [call EXCEPT ![t] = UnlockLatch(@, "pageTableLatch")]
    /\ Goto(t, IF call[t].page_id \in pageTable THEN "fix_lock" ELSE "getBufferFrame_lock")
    /\ UNCHANGED <<bmVars, held>>

\* getBufferFrame: pageTableLatch.lock().
getBufferFrame_lock(t) ==
    /\ pc[t] = "getBufferFrame_lock"
    /\ CanLockLatch("pageTableLatch", "X")
    /\ call' = [call EXCEPT ![t] = LockLatch(@, "pageTableLatch", "X")]
    /\ Goto(t, "getBufferFrame_emplace")
    /\ UNCHANGED <<bmVars, held>>

\* The page table gets a newly constructed frame for p whatever it holds.
pageTable_assign(p) ==
    /\ pageTable' = pageTable \cup {p}
    /\ pageState' = [pageState EXCEPT ![p] = "NOT_LOADED"]
    /\ isDirty' = [isDirty EXCEPT ![p] = FALSE]
    /\ dataPtr' = [dataPtr EXCEPT ![p] = "null"]
    /\ pageLatch' = [pageLatch EXCEPT ![p] = Latch]
    /\ loadingLatch' = [loadingLatch EXCEPT ![p] = {}]

\* The second pageTable.contains(pageId) and, on a miss, pageTable.emplace(pageId,
\* pageId): a frame BufferFrame(pageId) is constructed only when the table has
\* none for p; the frame found by the second look is left as it is.
pageTable_emplace(p) ==
    IF p \in pageTable
    THEN UNCHANGED <<pageTable, pageState, isDirty, dataPtr, pageLatch, loadingLatch>>
    ELSE /\ pageTable' = pageTable \cup {p}
         /\ pageState' = [pageState EXCEPT ![p] = "NOT_LOADED"]
         /\ isDirty' = [isDirty EXCEPT ![p] = FALSE]
         /\ dataPtr' = [dataPtr EXCEPT ![p] = "null"]
         /\ pageLatch' = [pageLatch EXCEPT ![p] = Latch]
         /\ loadingLatch' = [loadingLatch EXCEPT ![p] = {}]

\* getBufferFrame that returns the frame with the page-table latch still held.
getBufferFrame_emplace_keep(t) ==
    /\ pc[t] = "getBufferFrame_emplace"
    /\ pageTable_emplace(call[t].page_id)
    /\ Goto(t, "fix_lock")
    /\ UNCHANGED <<pageCount, data, disk, fifoList, lruList, call, held>>

\* getBufferFrame: the second look, emplace on a miss, pageTableLatch.unlock().
getBufferFrame_emplace(t) ==
    /\ pc[t] = "getBufferFrame_emplace"
    /\ pageTable_emplace(call[t].page_id)
    /\ call' = [call EXCEPT ![t] = UnlockLatch(@, "pageTableLatch")]
    /\ Goto(t, "fix_lock")
    /\ UNCHANGED <<pageCount, data, disk, fifoList, lruList, held>>

\* case IN_FIFO: ExclusiveLatch exclFifoLatch(fifoListLatch).
fix_in_fifo_lock_fifo(t) ==
    /\ pc[t] = "fix_in_fifo"
    /\ CanLockLatch("fifoListLatch", "X")
    /\ call' = [call EXCEPT ![t] = LockLatch(@, "fifoListLatch", "X")]
    /\ Goto(t, "fix_in_fifo_lock_lru")
    /\ UNCHANGED <<bmVars, held>>

\* case IN_FIFO: ExclusiveLatch exclLruLatch(lruListLatch).
fix_in_fifo_lock_lru(t) ==
    /\ pc[t] = "fix_in_fifo_lock_lru"
    /\ CanLockLatch("lruListLatch", "X")
    /\ call' = [call EXCEPT ![t] = LockLatch(@, "lruListLatch", "X")]
    /\ Goto(t, "fix_in_fifo_move")
    /\ UNCHANGED <<bmVars, held>>

\* case IN_FIFO under both latches: move the frame from FIFO to LRU, or update
\* LRU when it has been moved in the meantime; both latches are released.
fix_in_fifo_move(t) ==
    /\ pc[t] = "fix_in_fifo_move"
    /\ LET p == call[t].page_id IN
         IF pageState[p] = "IN_LRU"
         THEN /\ lruList' = updateLru(lruList, p)
              /\ UNCHANGED <<fifoList, pageState>>
         ELSE /\ fifoList' = Remove(fifoList, p)
              /\ lruList' = Append(lruList, p)
              /\ pageState' = [pageState EXCEPT ![p] = "IN_LRU"]
    /\ Return(t)
    /\ UNCHANGED <<pageCount, pageTable, isDirty, dataPtr, data, disk, pageLatch, loadingLatch>>

\* case IN_LRU: ExclusiveLatch exclLruLatch(lruListLatch).
fix_in_lru_lock(t) ==
    /\ pc[t] = "fix_in_lru"
    /\ CanLockLatch("lruListLatch", "X")
    /\ call' = [call EXCEPT ![t] = LockLatch(@, "lruListLatch", "X")]
    /\ Goto(t, "fix_in_lru_update")
    /\ UNCHANGED <<bmVars, held>>

\* case IN_LRU under the latch: updateLru; the latch is released.
fix_in_lru_update(t) ==
    /\ pc[t] = "fix_in_lru_update"
    /\ lruList' = updateLru(lruList, call[t].page_id)
    /\ Return(t)
    /\ UNCHANGED <<pageCount, pageTable, pageState, isDirty, dataPtr, data, disk, pageLatch,
                   loadingLatch, fifoList>>

\* insertBufferFrame: ExclusiveLatch exclFifoLatch(fifoListLatch).
insertBufferFrame_lock_fifo(t) ==
    /\ pc[t] = "insertBufferFrame"
    /\ CanLockLatch("fifoListLatch", "X")
    /\ call' = [call EXCEPT ![t] = LockLatch(@, "fifoListLatch", "X")]
    /\ Goto(t, "insertBufferFrame_lock_shared")
    /\ UNCHANGED <<bmVars, held>>

\* insertBufferFrame: lruListLatch.lock_shared().
insertBufferFrame_lock_shared(t) ==
    /\ pc[t] = "insertBufferFrame_lock_shared"
    /\ CanLockLatch("lruListLatch", "S")
    /\ call' = [call EXCEPT ![t] = LockLatch(@, "lruListLatch", "S")]
    /\ Goto(t, "insertBufferFrame_space")
    /\ UNCHANGED <<bmVars, held>>

\* insertBufferFrame: with free space push the frame and release both latches,
\* else release the LRU latch.
insertBufferFrame_space(t) ==
    /\ pc[t] = "insertBufferFrame_space"
    /\ IF HasFreeSpace
       THEN /\ fifoList' = Append(fifoList, call[t].page_id)
            /\ call' = [call EXCEPT ![t] = [@ EXCEPT !.touched = TRUE, !.latches = {}]]
            /\ Goto(t, "loadPage_data")
       ELSE /\ call' = [call EXCEPT ![t] = UnlockLatch(@, "lruListLatch")]
            /\ Goto(t, "insertBufferFrame_scan_fifo")
            /\ UNCHANGED fifoList
    /\ UNCHANGED <<pageCount, pageTable, pageState, isDirty, dataPtr, data, disk, pageLatch,
                   loadingLatch, lruList, held>>

\* insertBufferFrame: lockEvictableFrame(fifoList); a victim is taken out of
\* the list, the frame pushed and the FIFO latch released.
insertBufferFrame_scan_fifo(t) ==
    /\ pc[t] = "insertBufferFrame_scan_fifo"
    /\ LET i == lockEvictableFrame(fifoList)
       IN IF i # 0
          THEN /\ pageLatch' = [pageLatch EXCEPT ![fifoList[i]] = Lock(@, t)]
               /\ fifoList' = Append(Remove(fifoList, fifoList[i]), call[t].page_id)
               /\ call' = [call EXCEPT ![t] = [@ EXCEPT !.touched = TRUE, !.bf = fifoList[i],
                                                        !.latches = {}]]
               /\ Goto(t, "insertBufferFrame_evict")
          ELSE /\ Goto(t, "insertBufferFrame_lock_lru")
               /\ UNCHANGED <<pageLatch, fifoList, call>>
    /\ UNCHANGED <<pageCount, pageTable, pageState, isDirty, dataPtr, data, disk, loadingLatch,
                   lruList, held>>

\* insertBufferFrame: ExclusiveLatch exclLruLatch(lruListLatch).
insertBufferFrame_lock_lru(t) ==
    /\ pc[t] = "insertBufferFrame_lock_lru"
    /\ CanLockLatch("lruListLatch", "X")
    /\ call' = [call EXCEPT ![t] = LockLatch(@, "lruListLatch", "X")]
    /\ Goto(t, "insertBufferFrame_scan_lru")
    /\ UNCHANGED <<bmVars, held>>

\* insertBufferFrame: lockEvictableFrame(lruList); a victim is taken out of the
\* list and the frame pushed to FIFO; both latches are released either way.
insertBufferFrame_scan_lru(t) ==
    /\ pc[t] = "insertBufferFrame_scan_lru"
    /\ LET j == lockEvictableFrame(lruList)
       IN IF j # 0
          THEN /\ pageLatch' = [pageLatch EXCEPT ![lruList[j]] = Lock(@, t)]
               /\ lruList' = Remove(lruList, lruList[j])
               /\ fifoList' = Append(fifoList, call[t].page_id)
               /\ call' = [call EXCEPT ![t] = [@ EXCEPT !.touched = TRUE, !.bf = lruList[j],
                                                        !.latches = {}]]
               /\ Goto(t, "insertBufferFrame_evict")
          ELSE /\ call' = [call EXCEPT ![t] = [@ EXCEPT !.scanned = TRUE, !.latches = {}]]
               /\ Goto(t, "loadPage_fail")
               /\ UNCHANGED <<pageLatch, fifoList, lruList>>
    /\ UNCHANGED <<pageCount, pageTable, pageState, isDirty, dataPtr, data, disk, loadingLatch, held>>

LatchStep(t) ==
    \/ getBufferFrame_lock_shared(t)
    \/ getBufferFrame_contains(t)
    \/ getBufferFrame_lock(t)
    \/ getBufferFrame_emplace(t)
    \/ fix_lock(t)
    \/ fix_switch(t)
    \/ fix_in_fifo_lock_fifo(t)
    \/ fix_in_fifo_lock_lru(t)
    \/ fix_in_fifo_move(t)
    \/ fix_in_lru_lock(t)
    \/ fix_in_lru_update(t)
    \/ fix_loading(t)
    \/ fix_unlock_throw(t)
    \/ loadPage(t)
    \/ insertBufferFrame_lock_fifo(t)
    \/ insertBufferFrame_lock_shared(t)
    \/ insertBufferFrame_space(t)
    \/ insertBufferFrame_scan_fifo(t)
    \/ insertBufferFrame_lock_lru(t)
    \/ insertBufferFrame_scan_lru(t)
    \/ insertBufferFrame_evict(t)
    \/ loadPage_data(t)
    \/ loadPage_fail(t)

NextLatch ==
    /\ \E t \in Threads :
           \/ BM_Fix(t)
           \/ BM_UnfixClean(t)
           \/ BM_Catch(t)
           \/ LatchStep(t)
    /\ UNCHANGED treeVars

SpecLatch == InitBM /\ [][NextLatch]_vars

\* ------------------------------------------------------------ B+tree nodes
\* lower_bound_branchless, the loop: l is the remaining length, i the index.
RECURSIVE lower_bound_loop(_, _, _, _)
lower_bound_loop(range, val, l, i) ==
    LET half == l \div 2
    IN IF half = 0
       THEN i
       ELSE lower_bound_loop(range, val, l - half, IF range[i + half + 1] < val THEN i + half ELSE i)

\* lower_bound_branchless without the comparison after the loop.
lower_bound_branchless_noFinal(range, val) ==
    IF Len(range) = 0 THEN 0 ELSE lower_bound_loop(range, val, Len(range), 0)

\* The 0-based indices lower_bound_branchless dereferences: *mid in every
\* round of the loop, *(low + i) after it.
RECURSIVE lower_bound_reads(_, _, _, _)
lower_bound_reads(range, val, l, i) ==
    LET half == l \div 2
    IN IF half = 0
       THEN {i}
       ELSE {i + half} \cup
            lower_bound_reads(range, val, l - half,
                              IF i + half < Len(range) /\ range[i + half + 1] < val THEN i + half ELSE i)

\* lower_bound_branchless(low, up, val, cmp) with cmp = std::less: a 0-based index.
lower_bound_branchless(range, val) ==
    IF Len(range) = 0
    THEN 0
    ELSE LET i == lower_bound_loop(range, val, Len(range), 0)
         IN IF range[i + 1] < val THEN i + 1 ELSE i

is_leaf(node) == node.level = 0

\* InnerNode: keys holds the count - 1 separators, children the count children.
InnerNode_has_space(node) == node.count < InnerCapacity

\* A lower_bound that always answers the first child.
InnerNode_lower_bound_first(node, key) == <<0, FALSE>>

InnerNode_lower_bound(node, key) ==
    IF node.count = 0
    THEN <<0, FALSE>>
    ELSE LET i == lower_bound_branchless(SubSeq(node.keys, 1, node.count - 1), key)
         IN <<i, i < node.count - 1 /\ node.keys[i + 1] = key>>

InsertAt(seq, pos, e) == SubSeq(seq, 1, pos) \o <<e>> \o SubSeq(seq, pos + 1, Len(seq))

\* An insert_split that puts the new child in front of the child that was split.
InnerNode_insert_split_left(node, key, split_page) ==
    LET pos == InnerNode_lower_bound(node, key)[1]
    IN [node EXCEPT !.keys = InsertAt(node.keys, pos, key),
                    !.children = InsertAt(node.children, pos, split_page),
                    !.count = node.count + 1]

\* InnerNode::insert_split(key, split_page): the separator goes to keys[pos],
\* the new child to children[pos + 1]; what was there moves right.
InnerNode_insert_split(node, key, split_page) ==
    LET pos == InnerNode_lower_bound(node, key)[1]
    IN [node EXCEPT !.keys = InsertAt(node.keys, pos, key),
                    !.children = InsertAt(node.children, pos + 1, split_page),
                    !.count = node.count + 1]

\* InnerNode::split(buffer): <<this node, the node written to buffer, the separator>>.
InnerNode_split(node) ==
    LET otherCount == node.count \div 2
        newCount == node.count - otherCount
    IN << [node EXCEPT !.count = newCount,
                       !.keys = SubSeq(node.keys, 1, newCount - 1),
                       !.children = SubSeq(node.children, 1, newCount)],
          Page(node.level, otherCount, SubSeq(node.keys, newCount + 1, node.count - 1), <<>>,
               SubSeq(node.children, newCount + 1, node.count)),
          node.keys[newCount] >>

\* LeafNode::split that gives the larger half to the new leaf.
LeafNode_split_ceil(node) ==
    LET otherCount == (node.count + 1) \div 2
        newCount == node.count - otherCount
    IN << [node EXCEPT !.count = newCount,
                       !.keys = SubSeq(node.keys, 1, newCount),
                       !.vals = SubSeq(node.vals, 1, newCount)],
          Page(node.level, otherCount, SubSeq(node.keys, newCount + 1, node.count),
               SubSeq(node.vals, newCount + 1, node.count), <<>>),
          node.keys[IF newCount = 0 THEN 1 ELSE newCount] >>

\* LeafNode: keys and vals hold the count entries.
LeafNode_has_space(node) == node.count < LeafCapacity

LeafNode_lower_bound(node, key) ==
    IF node.count = 0
    THEN <<0, FALSE>>
    ELSE LET i == lower_bound_branchless(SubSeq(node.keys, 1, node.count), key)
         IN <<i, i < node.count /\ node.keys[i + 1] = key>>

\* An insert that keeps the old value of a key that is present.
LeafNode_insert_keep(node, key, value) ==
    LET pos == LeafNode_lower_bound(node, key)
    IN IF pos[2]
       THEN node
       ELSE [node EXCEPT !.keys = InsertAt(node.keys, pos[1], key),
                         !.vals = InsertAt(node.vals, pos[1], value),
                         !.count = node.count + 1]

\* An insert that puts a new key in front of the keys of the leaf.
LeafNode_insert_front(node, key, value) ==
    LET pos == LeafNode_lower_bound(node, key)
    IN IF pos[2]
       THEN [node EXCEPT !.vals[pos[1] + 1] = value]
       ELSE [node EXCEPT !.keys = <<key>> \o node.keys,
                         !.vals = <<value>> \o node.vals,
                         !.count = node.count + 1]

\* LeafNode::insert(key, value).
LeafNode_insert(node, key, value) ==
    LET pos == LeafNode_lower_bound(node, key)
    IN IF pos[2]
       THEN [node EXCEPT !.vals[pos[1] + 1] = value]
       ELSE [node EXCEPT !.keys = InsertAt(node.keys, pos[1], key),
                         !.vals = InsertAt(node.vals, pos[1], value),
                         !.count = node.count + 1]

RemoveAt(seq, pos) == SubSeq(seq, 1, pos) \o SubSeq(seq, pos + 2, Len(seq))

\* An erase that drops the last entry of the leaf instead of the entry found.
LeafNode_erase_last(node, key) ==
    LET pos == LeafNode_lower_bound(node, key)
    IN IF node.count = 0 \/ ~pos[2]
       THEN <<node, FALSE>>
       ELSE << [node EXCEPT !.keys = SubSeq(node.keys, 1, node.count - 1),
                            !.vals = SubSeq(node.vals, 1, node.count - 1),
                            !.count = node.count - 1], TRUE >>

\* LeafNode::erase(key): <<the node afterwards, whether the key was erased>>.
LeafNode_erase(node, key) ==
    LET pos == LeafNode_lower_bound(node, key)
    IN IF node.count = 0 \/ ~pos[2]
       THEN <<node, FALSE>>
       ELSE << [node EXCEPT !.keys = RemoveAt(node.keys, pos[1]),
                            !.vals = RemoveAt(node.vals, pos[1]),
                            !.count = node.count - 1], TRUE >>

\* LeafNode::split(buffer): <<this node, the node written to buffer, the separator>>.
LeafNode_split(node) ==
    LET otherCount == node.count \div 2
        newCount == node.count - otherCount
    IN << [node EXCEPT !.count = newCount,
                       !.keys = SubSeq(node.keys, 1, newCount),
                       !.vals = SubSeq(node.vals, 1, newCount)],
          Page(node.level, otherCount, SubSeq(node.keys, newCount + 1, node.count),
               SubSeq(node.vals, newCount + 1, node.count), <<>>),
          node.keys[newCount] >>

\* ------------------------------------------------------------ fix_page in one step
TreePids == {MakePid(segment_id, i) : i \in 0..(MaxNodes - 1)}

\* fix_page waits for the page latch.
FixBlocked(page_id, exclusive) ==
    ~(IF exclusive THEN CanLock(pageLatch[page_id]) ELSE CanLockShared(pageLatch[page_id]))

\* The frame insertBufferFrame evicts when there is no free space: the first
\* evictable frame of FIFO, else of LRU, else none.
Victim ==
    LET i == lockEvictableFrame(fifoList)
        j == lockEvictableFrame(lruList)
    IN IF i # 0 THEN fifoList[i] ELSE IF j # 0 THEN lruList[j] ELSE NullFrame

\* fix_page throws buffer_full_error: the page is not loaded, there is no free
\* space and no victim.
BufferFull(page_id) == ~Loaded(page_id) /\ ~HasFreeSpace /\ Victim = NullFrame

\* fix_page(page_id, exclusive) from entry to return or throw, run by thread t
\* with no step of another thread in between.
fix_page_atomic(t, page_id, exclusive) ==
    /\ ~FixBlocked(page_id, exclusive)
    /\ pageTable' = pageTable \cup {page_id}
    /\ IF BufferFull(page_id)
       THEN UNCHANGED <<pageState, isDirty, dataPtr, data, disk, pageLatch, fifoList, lruList, held>>
       ELSE LET bf == IF Loaded(page_id) \/ HasFreeSpace THEN NullFrame ELSE Victim
            IN /\ pageState' = [q \in DOMAIN pageState |->
                                  IF q = page_id
                                  THEN (IF pageState[q] = "NOT_LOADED" THEN "IN_FIFO" ELSE "IN_LRU")
                                  ELSE IF q = bf THEN "NOT_LOADED" ELSE pageState[q]]
               /\ disk' = IF bf # NullFrame /\ isDirty[bf] THEN flushPage(disk, bf) ELSE disk
               /\ isDirty' = [q \in DOMAIN isDirty |-> IF q = bf THEN FALSE ELSE isDirty[q]]
               /\ dataPtr' = [q \in DOMAIN dataPtr |->
                                IF q = page_id THEN "valid" ELSE IF q = bf THEN "freed" ELSE dataPtr[q]]
               /\ data' = [q \in DOMAIN data |->
                             IF q = page_id
                             THEN (IF Loaded(q) THEN data[q] ELSE getSegmentData(q))
                             ELSE IF q = bf THEN ZeroPage ELSE data[q]]
               /\ fifoList' = CASE pageState[page_id] = "IN_FIFO" -> Remove(fifoList, page_id)
                                [] pageState[page_id] = "IN_LRU" -> fifoList
                                [] OTHER -> Append(Remove(fifoList, bf), page_id)
               /\ lruList' = CASE pageState[page_id] = "IN_FIFO" -> Append(lruList, page_id)
                               [] pageState[page_id] = "IN_LRU" -> updateLru(lruList, page_id)
                               [] OTHER -> Remove(lruList, bf)
               /\ pageLatch' = [pageLatch EXCEPT ![page_id] =
                                  IF exclusive THEN Lock(@, t) ELSE LockShared(@, t)]
               /\ held' = [held EXCEPT ![t][page_id] = IF exclusive THEN "X" ELSE "S"]
    /\ UNCHANGED <<pageCount, loadingLatch>>

\* unfix_page for each page of clean with is_dirty = false and for each page of
\* dirty with is_dirty = true.
unfix_pages(t, clean, dirty) ==
    /\ isDirty' = [q \in DOMAIN isDirty |-> isDirty[q] \/ q \in dirty]
    /\ pageLatch' = [q \in DOMAIN pageLatch |->
                       IF q \in clean \cup dirty THEN Unlock(pageLatch[q], t) ELSE pageLatch[q]]
    /\ held' = [held EXCEPT ![t] = [q \in DOMAIN held[t] |->
                                      IF q \in clean \cup dirty THEN "-" ELSE held[t][q]]]

Frames(S) == S \ {NullFrame}

\* ------------------------------------------------------------ B+tree operations
\* The page of a node as the next fix of it finds it.
PageOf(p) == IF Loaded(p) THEN data[p] ELSE disk[p]

\* The leaf the descent for key from page p ends in.
RECURSIVE Descend(_, _, _)
Descend(p, key, fuel) ==
    LET node == PageOf(p)
    IN IF is_leaf(node) \/ fuel = 0
       THEN p
       ELSE Descend(node.children[InnerNode_lower_bound(node, key)[1] + 1], key, fuel - 1)

LeafOf(key) == Descend(root, key, MaxNodes)

\* The value stored for key in the tree under root, 0 when there is none.
Stored(key) ==
    LET leaf == PageOf(LeafOf(key))
        pos == LeafNode_lower_bound(leaf, key)
    IN IF pos[2] THEN leaf.vals[pos[1] + 1] ELSE 0

Contents == [k \in Keys |-> Stored(k)]

\* What an operation on key finds when it is called.
Pre(key) ==
    [present |-> Stored(key) # 0, nodes |-> nodeCount, count |-> PageOf(LeafOf(key)).count,
     contents |-> Contents]

BTree_lookup(t, key) ==
    /\ Idle(t)
    /\ tl' = [tl EXCEPT ![t] = [NoOp EXCEPT !.op = "lookup", !.key = key, !.pre = Pre(key)]]
    /\ Goto(t, "restart")
    /\ UNCHANGED <<bmVars, call, held, root, nodeCount, treeHeight, model>>

BTree_erase(t, key) ==
    /\ Idle(t)
    /\ tl' = [tl EXCEPT ![t] = [NoOp EXCEPT !.op = "erase", !.key = key, !.pre = Pre(key)]]
    /\ Goto(t, "restart")
    /\ UNCHANGED <<bmVars, call, held, root, nodeCount, treeHeight, model>>

BTree_insert(t, key, value) ==
    /\ Idle(t)
    /\ tl' = [tl EXCEPT ![t] = [NoOp EXCEPT !.op = "insert", !.key = key, !.value = value,
                                            !.pre = Pre(key)]]
    /\ Goto(t, "restart")
    /\ UNCHANGED <<bmVars, call, held, root, nodeCount, treeHeight, model>>

\* restart: parentFrame = nullptr; rootPid = root.
restart(t) ==
    /\ pc[t] = "restart"
    /\ tl' = [tl EXCEPT ![t].parentFrame = NullFrame, ![t].currentFrame = root]
    /\ Goto(t, "root_mode")
    /\ UNCHANGED <<bmVars, call, held, root, nodeCount, treeHeight, model>>

\* An erase that fixes the root shared whatever the height.
root_mode_shared(t) ==
    /\ pc[t] = "root_mode"
    /\ tl' = [tl EXCEPT ![t].mode = CASE tl[t].op = "lookup" -> FALSE
                                      [] tl[t].op = "erase" -> FALSE
                                      [] tl[t].op = "insert" -> tl[t].exclusive \/ treeHeight = 1]
    /\ Goto(t, "fix_root")
    /\ UNCHANGED <<bmVars, call, held, root, nodeCount, treeHeight, model>>

\* The mode of the fix of the root: lookup shared, erase treeHeight == 1,
\* insert exclusive || treeHeight == 1.
root_mode(t) ==
    /\ pc[t] = "root_mode"
    /\ tl' = [tl EXCEPT ![t].mode = CASE tl[t].op = "lookup" -> FALSE
                                      [] tl[t].op = "erase" -> treeHeight = 1
                                      [] tl[t].op = "insert" -> tl[t].exclusive \/ treeHeight = 1]
    /\ Goto(t, "fix_root")
    /\ UNCHANGED <<bmVars, call, held, root, nodeCount, treeHeight, model>>

\* currentFrame = &buffer_manager.fix_page(rootPid, mode).
fix_root(t) ==
    /\ pc[t] = "fix_root"
    /\ fix_page_atomic(t, tl[t].currentFrame, tl[t].mode)
    /\ Goto(t, IF BufferFull(tl[t].currentFrame) THEN "buffer_full_error" ELSE "check_root")
    /\ UNCHANGED <<call, treeVars>>

\* An operation that does not look at root again after it fixed the page.
check_root_descend(t) ==
    /\ pc[t] = "check_root"
    /\ Goto(t, "descend")
    /\ UNCHANGED <<bmVars, held, call, treeVars>>

\* A root check that restarts without unfixing the page.
check_root_leak(t) ==
    /\ pc[t] = "check_root"
    /\ Goto(t, IF root # tl[t].currentFrame THEN "restart" ELSE "descend")
    /\ UNCHANGED <<bmVars, held, call, treeVars>>

\* if (root != rootPid): unfix and restart.
check_root(t) ==
    /\ pc[t] = "check_root"
    /\ IF root # tl[t].currentFrame
       THEN /\ unfix_pages(t, {tl[t].currentFrame}, {})
            /\ Goto(t, "restart")
       ELSE /\ Goto(t, "descend")
            /\ UNCHANGED <<isDirty, pageLatch, held>>
    /\ UNCHANGED <<pageCount, pageTable, pageState, dataPtr, data, disk, loadingLatch,
                   fifoList, lruList, call, treeVars>>

\* A move down of insert that passes a full inner node without splitting it.
move_down_full(t) ==
    /\ pc[t] = "descend"
    /\ LET innerNode == data[tl[t].currentFrame]
           pos == InnerNode_lower_bound(innerNode, tl[t].key)
       IN /\ ~is_leaf(innerNode)
          /\ unfix_pages(t, Frames({tl[t].parentFrame}), {})
          /\ tl' = [tl EXCEPT ![t].parentFrame = tl[t].currentFrame,
                              ![t].child = innerNode.children[pos[1] + 1],
                              ![t].mode = CASE tl[t].op = "lookup" -> FALSE
                                            [] tl[t].op = "erase" -> innerNode.level = 1
                                            [] tl[t].op = "insert" ->
                                                 tl[t].exclusive \/ innerNode.level = 1]
    /\ Goto(t, "fix_child")
    /\ UNCHANGED <<pageCount, pageTable, pageState, dataPtr, data, disk, loadingLatch,
                   fifoList, lruList, call, root, nodeCount, treeHeight, model>>

\* A move down of lookup without latch coupling: the current node is unfixed
\* before the child is fixed.
move_down_uncoupled(t) ==
    /\ pc[t] = "descend"
    /\ LET innerNode == data[tl[t].currentFrame]
           pos == InnerNode_lower_bound(innerNode, tl[t].key)
       IN /\ ~is_leaf(innerNode)
          /\ tl[t].op = "insert" => InnerNode_has_space(innerNode)
          /\ unfix_pages(t, Frames({tl[t].parentFrame})
                               \cup (IF tl[t].op = "lookup" THEN {tl[t].currentFrame} ELSE {}), {})
          /\ tl' = [tl EXCEPT ![t].parentFrame = tl[t].currentFrame,
                              ![t].child = innerNode.children[pos[1] + 1],
                              ![t].mode = CASE tl[t].op = "lookup" -> FALSE
                                            [] tl[t].op = "erase" -> innerNode.level = 1
                                            [] tl[t].op = "insert" ->
                                                 tl[t].exclusive \/ innerNode.level = 1]
    /\ Goto(t, "fix_child")
    /\ UNCHANGED <<pageCount, pageTable, pageState, dataPtr, data, disk, loadingLatch,
                   fifoList, lruList, call, root, nodeCount, treeHeight, model>>

\* A move down of insert that fixes the child of a node of level 2 exclusively
\* as well.
move_down_level2(t) ==
    /\ pc[t] = "descend"
    /\ LET innerNode == data[tl[t].currentFrame]
           pos == InnerNode_lower_bound(innerNode, tl[t].key)
       IN /\ ~is_leaf(innerNode)
          /\ tl[t].op = "insert" => InnerNode_has_space(innerNode)
          /\ unfix_pages(t, Frames({tl[t].parentFrame}), {})
          /\ tl' = [tl EXCEPT ![t].parentFrame = tl[t].currentFrame,
                              ![t].child = innerNode.children[pos[1] + 1],
                              ![t].mode = CASE tl[t].op = "lookup" -> FALSE
                                            [] tl[t].op = "erase" -> innerNode.level = 1
                                            [] tl[t].op = "insert" ->
                                                 tl[t].exclusive \/ innerNode.level \in {1, 2}]
    /\ Goto(t, "fix_child")
    /\ UNCHANGED <<pageCount, pageTable, pageState, dataPtr, data, disk, loadingLatch,
                   fifoList, lruList, call, root, nodeCount, treeHeight, model>>

\* A move down that keeps the grandparent fixed.
move_down_keep(t) ==
    /\ pc[t] = "descend"
    /\ LET innerNode == data[tl[t].currentFrame]
           pos == InnerNode_lower_bound(innerNode, tl[t].key)
       IN /\ ~is_leaf(innerNode)
          /\ tl[t].op = "insert" => InnerNode_has_space(innerNode)
          /\ tl' = [tl EXCEPT ![t].parentFrame = tl[t].currentFrame,
                              ![t].child = innerNode.children[pos[1] + 1],
                              ![t].mode = CASE tl[t].op = "lookup" -> FALSE
                                            [] tl[t].op = "erase" -> innerNode.level = 1
                                            [] tl[t].op = "insert" ->
                                                 tl[t].exclusive \/ innerNode.level = 1]
    /\ Goto(t, "fix_child")
    /\ UNCHANGED <<bmVars, held, call, root, nodeCount, treeHeight, model>>

\* The body of the while loop on an inner node that is not split: lower_bound,
\* unfix the parent, parentFrame = currentFrame; the child is fixed next, shared
\* by lookup, with innerNode.level == 1 by erase, with exclusive ||
\* innerNode.level == 1 by insert.
move_down(t) ==
    /\ pc[t] = "descend"
    /\ LET innerNode == data[tl[t].currentFrame]
           pos == InnerNode_lower_bound(innerNode, tl[t].key)
       IN /\ ~is_leaf(innerNode)
          /\ tl[t].op = "insert" => InnerNode_has_space(innerNode)
          /\ unfix_pages(t, Frames({tl[t].parentFrame}), {})
          /\ tl' = [tl EXCEPT ![t].parentFrame = tl[t].currentFrame,
                              ![t].child = innerNode.children[pos[1] + 1],
                              ![t].mode = CASE tl[t].op = "lookup" -> FALSE
                                            [] tl[t].op = "erase" -> innerNode.level = 1
                                            [] tl[t].op = "insert" ->
                                                 tl[t].exclusive \/ innerNode.level = 1]
    /\ Goto(t, "fix_child")
    /\ UNCHANGED <<pageCount, pageTable, pageState, dataPtr, data, disk, loadingLatch,
                   fifoList, lruList, call, root, nodeCount, treeHeight, model>>

\* currentFrame = &buffer_manager.fix_page(innerNode.children[pos.first], mode).
fix_child(t) ==
    /\ pc[t] = "fix_child"
    /\ fix_page_atomic(t, tl[t].child, tl[t].mode)
    /\ IF BufferFull(tl[t].child)
       THEN Goto(t, "buffer_full_error") /\ UNCHANGED tl
       ELSE /\ Goto(t, "descend")
            /\ tl' = [tl EXCEPT ![t].currentFrame = tl[t].child, ![t].child = NullFrame]
    /\ UNCHANGED <<call, root, nodeCount, treeHeight, model>>

\* An operation returns: its frames are unfixed, the map is what it made it.
Finish(t, clean, dirty, ret, newModel) ==
    /\ unfix_pages(t, clean, dirty)
    /\ tl' = [tl EXCEPT ![t].ret = ret, ![t].parentFrame = NullFrame,
                        ![t].currentFrame = NullFrame, ![t].mode = FALSE,
                        ![t].exclusive = FALSE]
    /\ model' = newModel
    /\ Goto(t, "idle")

\* lookup at the leaf: the value at the lower bound when the key is found.
lookup_leaf(t) ==
    /\ pc[t] = "descend"
    /\ tl[t].op = "lookup"
    /\ LET leafNode == data[tl[t].currentFrame]
           pos == LeafNode_lower_bound(leafNode, tl[t].key)
       IN /\ is_leaf(leafNode)
          /\ Finish(t, Frames({tl[t].parentFrame, tl[t].currentFrame}), {},
                    IF pos[2] THEN leafNode.vals[pos[1] + 1] ELSE 0, model)
    /\ UNCHANGED <<pageCount, pageTable, pageState, dataPtr, data, disk, loadingLatch,
                   fifoList, lruList, call, root, nodeCount, treeHeight>>

\* An erase that takes a leaf it has emptied out of its parent.
erase_leaf_unlink(t) ==
    /\ pc[t] = "descend"
    /\ tl[t].op = "erase"
    /\ LET leafNode == data[tl[t].currentFrame]
           res == LeafNode_erase(leafNode, tl[t].key)
           parent == tl[t].parentFrame
           unlink == res[2] /\ res[1].count = 0 /\ parent # NullFrame
       IN /\ is_leaf(leafNode)
          /\ data' = [q \in DOMAIN data |->
                        IF q = tl[t].currentFrame THEN res[1]
                        ELSE IF unlink /\ q = parent /\ data[parent].count >= 2
                        THEN LET pos == InnerNode_lower_bound(data[parent], tl[t].key)[1]
                                 sep == IF pos < data[parent].count - 1 THEN pos ELSE pos - 1
                             IN [data[parent] EXCEPT !.children = RemoveAt(@, pos),
                                                     !.keys = RemoveAt(@, sep),
                                                     !.count = @ - 1]
                        ELSE data[q]]
          /\ Finish(t, Frames({tl[t].parentFrame}) \cup (IF res[2] THEN {} ELSE {tl[t].currentFrame}),
                    IF res[2] THEN {tl[t].currentFrame} ELSE {},
                    0, [model EXCEPT ![tl[t].key] = 0])
    /\ UNCHANGED <<pageCount, pageTable, pageState, dataPtr, disk, loadingLatch,
                   fifoList, lruList, call, root, nodeCount, treeHeight>>

\* An erase that unfixes the leaf with is_dirty = false.
erase_leaf_clean(t) ==
    /\ pc[t] = "descend"
    /\ tl[t].op = "erase"
    /\ LET leafNode == data[tl[t].currentFrame]
           res == LeafNode_erase(leafNode, tl[t].key)
       IN /\ is_leaf(leafNode)
          /\ data' = [data EXCEPT ![tl[t].currentFrame] = res[1]]
          /\ Finish(t, Frames({tl[t].parentFrame, tl[t].currentFrame}), {},
                    0, [model EXCEPT ![tl[t].key] = 0])
    /\ UNCHANGED <<pageCount, pageTable, pageState, dataPtr, disk, loadingLatch,
                   fifoList, lruList, call, root, nodeCount, treeHeight>>

\* erase at the leaf: leafNode.erase(key); the leaf is unfixed dirty when the
\* key was erased.
erase_leaf(t) ==
    /\ pc[t] = "descend"
    /\ tl[t].op = "erase"
    /\ LET leafNode == data[tl[t].currentFrame]
           res == LeafNode_erase(leafNode, tl[t].key)
       IN /\ is_leaf(leafNode)
          /\ data' = [data EXCEPT ![tl[t].currentFrame] = res[1]]
          /\ Finish(t, Frames({tl[t].parentFrame}) \cup (IF res[2] THEN {} ELSE {tl[t].currentFrame}),
                    IF res[2] THEN {tl[t].currentFrame} ELSE {},
                    0, [model EXCEPT ![tl[t].key] = 0])
    /\ UNCHANGED <<pageCount, pageTable, pageState, dataPtr, disk, loadingLatch,
                   fifoList, lruList, call, root, nodeCount, treeHeight>>

\* insert at a leaf with space: leafNode.insert(key, value); the leaf is
\* unfixed dirty, the parent clean.
insert_leaf(t) ==
    /\ pc[t] = "descend"
    /\ tl[t].op = "insert"
    /\ LET leafNode == data[tl[t].currentFrame]
       IN /\ is_leaf(leafNode)
          /\ LeafNode_has_space(leafNode)
          /\ data' = [data EXCEPT ![tl[t].currentFrame] =
                        LeafNode_insert(leafNode, tl[t].key, tl[t].value)]
          /\ Finish(t, Frames({tl[t].parentFrame}), {tl[t].currentFrame}, 0,
                    [model EXCEPT ![tl[t].key] = tl[t].value])
    /\ UNCHANGED <<pageCount, pageTable, pageState, dataPtr, disk, loadingLatch,
                   fifoList, lruList, call, root, nodeCount, treeHeight>>

\* The node insert stands on has no space.
NodeIsFull(node) ==
    IF is_leaf(node) THEN ~LeafNode_has_space(node) ELSE ~InnerNode_has_space(node)

\* An insert that restarts on a full node without exclusive = true.
insert_restart_shared(t) ==
    /\ pc[t] = "descend"
    /\ tl[t].op = "insert"
    /\ NodeIsFull(data[tl[t].currentFrame])
    /\ ~tl[t].exclusive
    /\ unfix_pages(t, Frames({tl[t].parentFrame, tl[t].currentFrame}), {})
    /\ UNCHANGED tl
    /\ Goto(t, "restart")
    /\ UNCHANGED <<pageCount, pageTable, pageState, dataPtr, data, disk, loadingLatch,
                   fifoList, lruList, call, root, nodeCount, treeHeight, model>>

\* insert on a full node, not exclusive: unfix both frames, exclusive = true, restart.
insert_restart_exclusive(t) ==
    /\ pc[t] = "descend"
    /\ tl[t].op = "insert"
    /\ NodeIsFull(data[tl[t].currentFrame])
    /\ ~tl[t].exclusive
    /\ unfix_pages(t, Frames({tl[t].parentFrame, tl[t].currentFrame}), {})
    /\ tl' = [tl EXCEPT ![t].exclusive = TRUE]
    /\ Goto(t, "restart")
    /\ UNCHANGED <<pageCount, pageTable, pageState, dataPtr, data, disk, loadingLatch,
                   fifoList, lruList, call, root, nodeCount, treeHeight, model>>

\* create_new_node that mints every page id from the count before the last one.
create_new_node_stale == MakePid(segment_id, nodeCount - 1)

\* create_new_node: (segment_id << 48) ^ nodeCount++.
create_new_node == MakePid(segment_id, nodeCount)

\* insert on a full node, exclusive: rightPid = create_new_node().
insert_create_right(t) ==
    /\ pc[t] = "descend"
    /\ tl[t].op = "insert"
    /\ NodeIsFull(data[tl[t].currentFrame])
    /\ tl[t].exclusive
    /\ nodeCount < MaxNodes
    /\ tl' = [tl EXCEPT ![t].rightBf = create_new_node]
    /\ nodeCount' = nodeCount + 1
    /\ Goto(t, "fix_right")
    /\ UNCHANGED <<bmVars, call, held, root, treeHeight, model>>

\* rightBf = buffer_manager.fix_page(rightPid, true).
fix_right(t) ==
    /\ pc[t] = "fix_right"
    /\ fix_page_atomic(t, tl[t].rightBf, TRUE)
    /\ Goto(t, IF BufferFull(tl[t].rightBf) THEN "buffer_full_error" ELSE "split")
    /\ UNCHANGED <<call, treeVars>>

\* The node is split into the new page.  With a parent, the separator is
\* inserted into it under the two assertions of insert_split; without one,
\* grow_root starts with create_new_node.
split(t) ==
    /\ pc[t] = "split"
    /\ LET cur == tl[t].currentFrame
           parent == tl[t].parentFrame
           res == IF is_leaf(data[cur]) THEN LeafNode_split(data[cur]) ELSE InnerNode_split(data[cur])
       IN IF parent # NullFrame
          THEN IF InnerNode_has_space(data[parent]) /\ ~InnerNode_lower_bound(data[parent], res[3])[2]
               THEN /\ data' = [data EXCEPT ![cur] = res[1], ![tl[t].rightBf] = res[2],
                                            ![parent] = InnerNode_insert_split(data[parent], res[3],
                                                                               tl[t].rightBf)]
                    /\ tl' = [tl EXCEPT ![t].splitKey = res[3]]
                    /\ Goto(t, "unfix_split")
                    /\ UNCHANGED nodeCount
               ELSE /\ Goto(t, "assert_failed")
                    /\ UNCHANGED <<data, tl, nodeCount>>
          ELSE /\ nodeCount < MaxNodes
               /\ data' = [data EXCEPT ![cur] = res[1], ![tl[t].rightBf] = res[2]]
               /\ tl' = [tl EXCEPT ![t].splitKey = res[3], ![t].newRoot = create_new_node]
               /\ nodeCount' = nodeCount + 1
               /\ Goto(t, "grow_root_fix")
    /\ UNCHANGED <<pageCount, pageTable, pageState, isDirty, dataPtr, disk, pageLatch,
                   loadingLatch, fifoList, lruList, call, held, root, treeHeight, model>>

\* grow_root: bf = buffer_manager.fix_page(pid, true).
grow_root_fix(t) ==
    /\ pc[t] = "grow_root_fix"
    /\ fix_page_atomic(t, tl[t].newRoot, TRUE)
    /\ Goto(t, IF BufferFull(tl[t].newRoot) THEN "buffer_full_error" ELSE "grow_root")
    /\ UNCHANGED <<call, treeVars>>

\* grow_root that writes the two children in the wrong order.
grow_root_swapped(t) ==
    /\ pc[t] = "grow_root"
    /\ data' = [data EXCEPT ![tl[t].newRoot] =
                  Page(data[tl[t].currentFrame].level + 1, 2, <<tl[t].splitKey>>, <<>>,
                       <<tl[t].rightBf, tl[t].currentFrame>>)]
    /\ root' = tl[t].newRoot
    /\ Goto(t, "grow_root_height")
    /\ UNCHANGED <<pageCount, pageTable, pageState, isDirty, dataPtr, disk, pageLatch,
                   loadingLatch, fifoList, lruList, call, held, nodeCount, treeHeight, tl, model>>

\* grow_root: the new root is written, then root = pid.
grow_root(t) ==
    /\ pc[t] = "grow_root"
    /\ data' = [data EXCEPT ![tl[t].newRoot] =
                  Page(data[tl[t].currentFrame].level + 1, 2, <<tl[t].splitKey>>, <<>>,
                       <<tl[t].currentFrame, tl[t].rightBf>>)]
    /\ root' = tl[t].newRoot
    /\ Goto(t, "grow_root_height")
    /\ UNCHANGED <<pageCount, pageTable, pageState, isDirty, dataPtr, disk, pageLatch,
                   loadingLatch, fifoList, lruList, call, held, nodeCount, treeHeight, tl, model>>

\* grow_root without ++treeHeight.
grow_root_height_skip(t) ==
    /\ pc[t] = "grow_root_height"
    /\ tl' = [tl EXCEPT ![t].parentFrame = tl[t].newRoot, ![t].newRoot = NullFrame]
    /\ Goto(t, "unfix_split")
    /\ UNCHANGED <<bmVars, call, held, root, nodeCount, treeHeight, model>>

\* grow_root: ++treeHeight; the caller sets parentFrame = &newRoot.
grow_root_height(t) ==
    /\ pc[t] = "grow_root_height"
    /\ treeHeight' = treeHeight + 1
    /\ tl' = [tl EXCEPT ![t].parentFrame = tl[t].newRoot, ![t].newRoot = NullFrame]
    /\ Goto(t, "unfix_split")
    /\ UNCHANGED <<bmVars, call, held, root, nodeCount, model>>

\* After a split the three frames are unfixed dirty; exclusive = false, restart.
unfix_split(t) ==
    /\ pc[t] = "unfix_split"
    /\ unfix_pages(t, {}, {tl[t].rightBf, tl[t].currentFrame, tl[t].parentFrame})
    /\ tl' = [tl EXCEPT ![t].exclusive = FALSE, ![t].rightBf = NullFrame, ![t].splitKey = 0]
    /\ Goto(t, "restart")
    /\ UNCHANGED <<pageCount, pageTable, pageState, dataPtr, data, disk, loadingLatch,
                   fifoList, lruList, call, root, nodeCount, treeHeight, model>>

\* buffer_full_error leaves the operation: the tree has no handler for it and
\* unfixes nothing on the way out; the caller of the tree catches it.
BTree_catch(t) ==
    /\ pc[t] = "buffer_full_error"
    /\ tl' = [tl EXCEPT ![t] = [NoOp EXCEPT !.op = "failed"]]
    /\ Goto(t, "idle")
    /\ UNCHANGED <<bmVars, call, held, root, nodeCount, treeHeight, model>>

\* The steps of insert.
InsertStep(t) ==
    \/ restart(t)
    \/ root_mode(t)
    \/ fix_root(t)
    \/ check_root(t)
    \/ move_down(t)
    \/ fix_child(t)
    \/ insert_leaf(t)
    \/ insert_restart_exclusive(t)
    \/ insert_create_right(t)
    \/ fix_right(t)
    \/ split(t)
    \/ grow_root_fix(t)
    \/ grow_root(t)
    \/ grow_root_height(t)
    \/ unfix_split(t)

TreeStep(t) ==
    \/ InsertStep(t)
    \/ lookup_leaf(t)
    \/ erase_leaf(t)

\* The state after BufferManager(page_size, page_count) and BTree(segment_id,
\* buffer_manager): the root is an empty leaf, fixed once and unfixed dirty.
InitTree(page_count) ==
    LET pid == MakePid(segment_id, 0)
    IN /\ pageCount = page_count
       /\ pageTable = {pid}
       /\ pageState = [p \in TreePids |-> IF p = pid THEN "IN_FIFO" ELSE "NOT_LOADED"]
       /\ isDirty = [p \in TreePids |-> p = pid]
       /\ dataPtr = [p \in TreePids |-> IF p = pid THEN "valid" ELSE "null"]
       /\ data = [p \in TreePids |-> ZeroPage]
       /\ disk = [p \in TreePids |-> ZeroPage]
       /\ pageLatch = [p \in TreePids |-> Latch]
       /\ loadingLatch = [p \in TreePids |-> {}]
       /\ fifoList = <<pid>>
       /\ lruList = <<>>
       /\ pc = [t \in Threads |-> "idle"]
       /\ call = [t \in Threads |-> NoCall]
       /\ held = [t \in Threads |-> [p \in TreePids |-> "-"]]
       /\ root = pid
       /\ nodeCount = 1
       /\ treeHeight = 1
       /\ tl = [t \in Threads |-> NoOp]
       /\ model = [k \in Keys |-> 0]

\* ------------------------------------------------------------ SpecSeq, SpecFull: one thread
InitSeq == InitTree(PageCountSeq)

NextSeq ==
    \/ \E key \in SeqKeys : BTree_lookup(1, key)
    \/ \E key \in SeqKeys : BTree_erase(1, key)
    \/ \E key \in SeqKeys, value \in Values : BTree_insert(1, key, value)
    \/ TreeStep(1)

SpecSeq == InitSeq /\ [][NextSeq]_vars

\* SpecFull: the same thread on buffers of PageCountFull to PageCountSeq pages.
InitFull == \E page_count \in PageCountFull..PageCountSeq : InitTree(page_count)

NextFull ==
    \/ NextSeq
    \/ BTree_catch(1)

SpecFull == InitFull /\ [][NextFull]_vars

\* ------------------------------------------------------------ SpecConc: concurrent writers
\* The keys thread t inserts: the sets of two threads are disjoint.
OwnKeys(t) == {k \in Keys : (k % MaxThreads) + 1 = t}

\* The next key of the loop of thread t: its smallest key not inserted yet.
NextOwnKey(t) == Min({k \in OwnKeys(t) : model[k] = 0})

\* Every thread has arrived at the barrier.
AllInserted == \A k \in Keys : model[k] # 0

InitConc == InitTree(PageCountConc)

\* Every thread inserts (i, 2 * i) for its keys in increasing order.
NextConc ==
    \E t \in Threads :
        \/ /\ \E k \in OwnKeys(t) : model[k] = 0
           /\ BTree_insert(t, NextOwnKey(t), 2 * NextOwnKey(t))
        \/ InsertStep(t)

SpecConc == InitConc /\ [][NextConc]_vars

\* ------------------------------------------------------------ SpecMix: a writer and a mixed client
\* The key the second thread works on.
MixKey == Min(Keys)

\* The next key of the first thread: the smallest key above every key of its
\* own that the tree holds.
NextNewKey == Min({k \in Keys \ {MixKey} : \A j \in Keys : j >= k => model[j] = 0})

InitMix == InitTree(PageCountConc)

\* The first thread inserts (i, 2 * i) in increasing order; the second thread
\* looks up, erases and inserts one key of its own.
NextMix ==
    \/ /\ model[MaxKey] = 0
       /\ BTree_insert(1, NextNewKey, 2 * NextNewKey)
    \/ InsertStep(1)
    \/ BTree_lookup(2, MixKey)
    \/ BTree_erase(2, MixKey)
    \/ BTree_insert(2, MixKey, 2 * MixKey)
    \/ TreeStep(2)

SpecMix == InitMix /\ [][NextMix]_vars

\* ------------------------------------------------------------ SpecLive: finitely many operations, fair threads
LiveKeys == 1..MaxLiveKey

\* The next key of the first thread: the smallest key above every key the tree holds.
NextLiveKey == Min({k \in LiveKeys : \A j \in LiveKeys : j >= k => model[j] = 0})

\* The first thread inserts (i, 2 * i) in increasing order up to MaxLiveKey.
Live_insert ==
    /\ model[MaxLiveKey] = 0
    /\ BTree_insert(1, NextLiveKey, 2 * NextLiveKey)

\* The second thread erases a key below the largest key of the tree; no key is
\* inserted a second time, so it erases each key at most once.
Live_erase ==
    /\ tl[2].op # "erase"
    /\ \E k \in LiveKeys :
         /\ model[k] # 0
         /\ \E j \in LiveKeys : j > k /\ model[j] # 0
         /\ BTree_erase(2, k)

\* After an erase the second thread looks the erased key up.
Live_lookup ==
    /\ tl[2].op = "erase"
    /\ BTree_lookup(2, tl[2].key)

InitLive == InitTree(PageCountConc)

NextLive ==
    \/ Live_insert
    \/ InsertStep(1)
    \/ Live_erase
    \/ Live_lookup
    \/ TreeStep(2)

\* A thread that can take the next step of its operation takes it.
SpecLive == InitLive /\ [][NextLive]_vars /\ WF_vars(InsertStep(1)) /\ WF_vars(TreeStep(2))

\* ------------------------------------------------------------ SpecLook: a reader beside a writer
\* The next key of the first thread: the largest key not inserted yet.
NextDownKey == CHOOSE k \in Keys : model[k] = 0 /\ \A j \in Keys : model[j] = 0 => j <= k

\* The keys the second thread looks up: the largest keys, which every split
\* of their leaf moves to the new page.
LookKeys == {k \in Keys : k > MaxKey - MaxLookKeys}

\* The first thread inserts (i, 2 * i) in decreasing order.
Look_insert ==
    /\ \E k \in Keys : model[k] = 0
    /\ BTree_insert(1, NextDownKey, 2 * NextDownKey)

\* The second thread looks up a key whose insert has returned.
Look_lookup ==
    \E k \in LookKeys :
        /\ model[k] # 0
        /\ BTree_lookup(2, k)

InitLook == InitTree(PageCountConc)

\* The steps of lookup.
LookupStep(t) ==
    \/ restart(t)
    \/ root_mode(t)
    \/ fix_root(t)
    \/ check_root(t)
    \/ move_down(t)
    \/ fix_child(t)
    \/ lookup_leaf(t)

NextLook ==
    \/ Look_insert
    \/ InsertStep(1)
    \/ Look_lookup
    \/ LookupStep(2)

SpecLook == InitLook /\ [][NextLook]_vars

\* ------------------------------------------------------------ SpecNode: the functions of a node
\* sizeof(Node), sizeof(KeyT), sizeof(ValueT) with KeyT = ValueT = uint64_t.
sizeofNode == 4
sizeofKeyT == 8
sizeofValueT == 8

\* LeafNode::kCapacity for a page size.
LeafNode_kCapacity(PageSize) == (PageSize - sizeofNode) \div (sizeofKeyT + sizeofValueT)

\* The page sizes: powers of two from 64 bytes on.
PageSizes == {2 ^ k : k \in 6..MaxPageSizeLog}

\* The sorted ranges of at most MaxLen elements of 0..MaxElem, repeated elements included.
SortedRanges ==
    {r \in UNION {[1..n -> 0..MaxElem] : n \in 0..MaxLen} :
        \A i \in 1..(Len(r) - 1) : r[i] <= r[i + 1]}

\* A leaf is filled with insert(i, 2 * i) for i = 0..n - 1.
FilledKeys(n) == [i \in 1..n |-> i - 1]

\* The leaf with the keys of the range; the value of key k is 2 * k.
LeafOfRange(r) == Page(0, Len(r), r, [i \in 1..Len(r) |-> 2 * r[i]], <<>>)

\* The leaf under test and the buffer of the new leaf.
LeftPid == MakePid(segment_id, 0)
RightPid == MakePid(segment_id, 1)

\* A range and a query value are chosen; the range is the key array of the
\* left page, and disk keeps the page as it was chosen.
InitNode ==
    \E r \in SortedRanges \cup {FilledKeys(LeafNode_kCapacity(PageSize)) : PageSize \in PageSizes},
       val \in 0..(MaxElem + 1) :
        /\ pageCount = PageCountSeq
        /\ pageTable = {LeftPid, RightPid}
        /\ pageState = [p \in TreePids |-> IF p \in {LeftPid, RightPid} THEN "IN_FIFO" ELSE "NOT_LOADED"]
        /\ isDirty = [p \in TreePids |-> FALSE]
        /\ dataPtr = [p \in TreePids |-> IF p \in {LeftPid, RightPid} THEN "valid" ELSE "null"]
        /\ data = [p \in TreePids |-> IF p = LeftPid THEN LeafOfRange(r) ELSE ZeroPage]
        /\ disk = [p \in TreePids |-> IF p = LeftPid THEN LeafOfRange(r) ELSE ZeroPage]
        /\ pageLatch = [p \in TreePids |-> Latch]
        /\ loadingLatch = [p \in TreePids |-> {}]
        /\ fifoList = <<LeftPid, RightPid>>
        /\ lruList = <<>>
        /\ pc = [t \in Threads |-> "idle"]
        /\ call = [t \in Threads |-> NoCall]
        /\ held = [t \in Threads |-> [p \in TreePids |-> "-"]]
        /\ root = LeftPid
        /\ nodeCount = 2
        /\ treeHeight = 1
        /\ tl = [t \in Threads |-> IF t = 1 THEN [NoOp EXCEPT !.key = val] ELSE NoOp]
        /\ model = [k \in Keys |-> 0]

\* lower_bound_branchless(keys, keys + count, val) is called.
Node_lower_bound ==
    /\ Idle(1)
    /\ tl' = [tl EXCEPT ![1].op = "lower_bound",
                        ![1].ret = lower_bound_branchless(data[LeftPid].keys, tl[1].key)]
    /\ Goto(1, "done")
    /\ UNCHANGED <<bmVars, call, held, root, nodeCount, treeHeight, model>>

\* left_node->split(buffer_right) is called on a leaf of strictly increasing keys.
Node_split ==
    /\ Idle(1)
    /\ data[LeftPid].count >= 1
    /\ \A i \in 1..(data[LeftPid].count - 1) : data[LeftPid].keys[i] < data[LeftPid].keys[i + 1]
    /\ LET res == LeafNode_split(data[LeftPid])
       IN /\ data' = [data EXCEPT ![LeftPid] = res[1], ![RightPid] = res[2]]
          /\ tl' = [tl EXCEPT ![1].op = "split", ![1].splitKey = res[3]]
    /\ Goto(1, "done")
    /\ UNCHANGED <<pageCount, pageTable, pageState, isDirty, dataPtr, disk, pageLatch, loadingLatch,
                   fifoList, lruList, call, held, root, nodeCount, treeHeight, model>>

NextNode == Node_lower_bound \/ Node_split

SpecNode == InitNode /\ [][NextNode]_vars

\* ------------------------------------------------------------ properties of the tree, one thread
\* C1: single-threaded, after any sequence of inserts and erases (with leaf
\* splits, inner splits and root growth), lookup(k) returns the value of the
\* most recent insert of k when k was not erased since, and nothing when k was
\* never inserted or was erased after its last insert.
C1_LookupReturnsLastInsert ==
    \A t \in Threads :
        (pc[t] = "idle" /\ tl[t].op = "lookup") => tl[t].ret = model[tl[t].key]

\* A lookup has found the second value of a key in a tree of height 3 while
\* another key has been erased.
C1_Witness ==
    /\ pc[1] = "idle"
    /\ tl[1].op = "lookup"
    /\ tl[1].ret = MaxValue
    /\ treeHeight >= 3
    /\ \E k \in Keys : model[k] = 0 /\ k # tl[1].key

\* C2, as stated: insert(k, v) of a key that is present leaves lookup(k) = v,
\* leaves the count of the leaf holding k unchanged, splits nothing, and leaves
\* the values of all other keys unchanged.
C2_OverwriteNeverSplits ==
    \A t \in Threads :
        (pc[t] = "idle" /\ tl[t].op = "insert" /\ tl[t].pre.present) =>
            /\ Stored(tl[t].key) = tl[t].value
            /\ PageOf(LeafOf(tl[t].key)).count = tl[t].pre.count
            /\ nodeCount = tl[t].pre.nodes
            /\ \A k \in Keys \ {tl[t].key} : Stored(k) = tl[t].pre.contents[k]

\* C2, amended: insert(k, v) of a key that is present leaves lookup(k) = v and
\* the values of all other keys unchanged; the count of the leaf holding k is
\* unchanged when the insert split no node, which it does when the leaf of k or
\* an inner node on the way to it is full.
C2_OverwriteInPlace ==
    \A t \in Threads :
        (pc[t] = "idle" /\ tl[t].op = "insert" /\ tl[t].pre.present) =>
            /\ Stored(tl[t].key) = tl[t].value
            /\ \A k \in Keys \ {tl[t].key} : Stored(k) = tl[t].pre.contents[k]
            /\ nodeCount = tl[t].pre.nodes =>
                   PageOf(LeafOf(tl[t].key)).count = tl[t].pre.count

\* An insert has replaced the value of a present key by another value in a
\* tree of height 2, without a split.
C2_Witness ==
    /\ pc[1] = "idle"
    /\ tl[1].op = "insert"
    /\ tl[1].pre.present
    /\ tl[1].pre.contents[tl[1].key] # tl[1].value
    /\ nodeCount = tl[1].pre.nodes
    /\ treeHeight >= 2

\* C3: after erase(k), lookup(k) finds nothing and every other key present
\* before the erase is present with the same value, also when the keys are
\* spread over several leaves.
C3_EraseRemovesOnlyKey ==
    \A t \in Threads :
        (pc[t] = "idle" /\ tl[t].op = "erase") =>
            /\ Stored(tl[t].key) = 0
            /\ \A k \in Keys \ {tl[t].key} : Stored(k) = tl[t].pre.contents[k]

\* An erase has removed a present key from a tree of height 2 or more that
\* still holds two other keys in different leaves.
C3_Witness ==
    /\ pc[1] = "idle"
    /\ tl[1].op = "erase"
    /\ tl[1].pre.present
    /\ treeHeight >= 2
    /\ \E k1, k2 \in Keys \ {tl[1].key} :
          /\ Stored(k1) # 0
          /\ Stored(k2) # 0
          /\ LeafOf(k1) # LeafOf(k2)

\* C8, as stated: when fix_page raises buffer_full_error inside a tree
\* operation, the operation exits holding no page latch.
C8_NoLatchHeldOnBufferFull ==
    \A t \in Threads :
        pc[t] = "buffer_full_error" =>
            \A p \in DOMAIN pageLatch : held[t][p] = "-" /\ ~Holds(pageLatch[p], t)

\* C9, as stated: when fix_page raises buffer_full_error inside an insert, the
\* mapping reachable from root is the one before the insert started.
C9_MappingUnchangedOnBufferFull ==
    \A t \in Threads :
        (pc[t] = "buffer_full_error" /\ tl[t].op = "insert") =>
            Contents = tl[t].pre.contents

\* ------------------------------------------------------------ properties of the tree, concurrent writers
\* C4: when several threads insert pairwise disjoint sets of keys concurrently
\* (with leaf splits, inner splits and root growth in between), then once the
\* inserts have returned every inserted key is found with exactly the value its
\* thread wrote, and no other key is found.
C4_ConcurrentInsertsNotLost ==
    (\A t \in Threads : pc[t] = "idle") =>
        \A k \in Keys : Stored(k) = model[k] /\ model[k] \in {0, 2 * k}

\* Both threads have inserted all their keys and the tree has grown to height 3.
C4_Witness ==
    /\ \A t \in Threads : pc[t] = "idle" /\ tl[t].op = "insert"
    /\ AllInserted
    /\ treeHeight >= 3
    /\ \A k \in Keys : Stored(k) = 2 * k

\* ------------------------------------------------------------ properties of the buffer manager
\* C5: whenever fix_page has returned a frame, and until the caller unfixes
\* it, the frame is IN_FIFO or IN_LRU with its page in memory, is a member of
\* the list of its state, and the caller holds its page latch in the mode it
\* asked for.
C5_FixedFrameLoaded ==
    \A t \in Threads : \A p \in DOMAIN pageState :
        held[t][p] # "-" =>
            /\ Loaded(p)
            /\ dataPtr[p] = "valid"
            /\ pageState[p] = "IN_FIFO" => InSeq(fifoList, p)
            /\ pageState[p] = "IN_LRU" => InSeq(lruList, p)
            /\ held[t][p] = "X" => pageLatch[p].x = {t} /\ pageLatch[p].s = {}
            /\ held[t][p] = "S" => t \in pageLatch[p].s /\ pageLatch[p].x = {}

\* Thread 1 holds a frame it fixed while the scan of thread 2 for a victim has
\* just passed over it.
C5_Witness ==
    /\ \E p \in DOMAIN pageState : held[1][p] # "-"
    /\ pc[2] = "loadPage_fail"
    /\ call[2].scanned

\* The buffer is full and the page latch of every frame in FIFO and in LRU is held.
BufferFullAllLatched ==
    /\ Len(fifoList) + Len(lruList) = pageCount
    /\ \A i \in 1..Len(fifoList) : ~CanLock(pageLatch[fifoList[i]])
    /\ \A i \in 1..Len(lruList) : ~CanLock(pageLatch[lruList[i]])

\* Thread t takes a step on which its fix_page is bound to throw buffer_full_error.
FixFails(t) ==
    \/ pc[t] = "insertBufferFrame" /\ pc'[t] = "loadPage_fail"
    \/ pc[t] = "fix_loading" /\ pc'[t] = "fix_unlock_throw"

C7_BufferFullReleasesInModeTaken ==
    [][\A t \in Threads :
          (pc[t] = "fix_unlock_throw" /\ pc'[t] = "buffer_full_error") =>
              /\ ~Holds(pageLatch'[call[t].page_id], t)
              /\ call'[t].released = (IF call[t].exclusive THEN "unlock" ELSE "unlock_shared")
              /\ pageState'[call[t].page_id] = "NOT_LOADED"
              /\ ~call'[t].touched]_vars

\* C10: in every state the frames in FIFO and in LRU are at most pageCount.
C10_ListsWithinPageCount == Len(fifoList) + Len(lruList) <= pageCount

\* The buffer is full and a thread is replacing a frame by another.
C10_Witness ==
    /\ Len(fifoList) + Len(lruList) = pageCount
    /\ \E t \in Threads : pc[t] = "insertBufferFrame_evict"

\* ------------------------------------------------------------ properties of SpecOne
Last(seq) == seq[Len(seq)]

\* C11: with one thread, the fix that loads a page returns with the page at the
\* tail of FIFO, in state IN_FIFO and not in LRU; a later fix that finds the page
\* IN_FIFO takes the IN_FIFO case, and returns with the page removed from FIFO,
\* at the tail of LRU and in state IN_LRU.
C11_FirstFixFifoSecondFixLru ==
    [][LET p == call[1].page_id IN
         /\ (pc[1] = "loadPage_data" /\ pc'[1] = "idle") =>
              /\ fifoList' # <<>> /\ Last(fifoList') = p
              /\ ~InSeq(lruList', p)
              /\ pageState'[p] = "IN_FIFO"
              /\ held'[1][p] # "-"
         /\ (pc[1] = "fix_switch" /\ pageState[p] = "IN_FIFO") =>
              /\ pc'[1] = "fix_in_fifo"
              /\ InSeq(fifoList, p) /\ ~InSeq(lruList, p)
         /\ (pc[1] = "fix_in_fifo" /\ pc'[1] = "idle") =>
              /\ InSeq(fifoList, p) /\ ~InSeq(fifoList', p)
              /\ fifoList' = Remove(fifoList, p)
              /\ lruList' # <<>> /\ Last(lruList') = p
              /\ Len(lruList') = Len(lruList) + 1
              /\ pageState'[p] = "IN_LRU"
              /\ held'[1][p] # "-"]_vars

\* A second fix has returned: the page it fixed is at the tail of LRU, pages
\* fixed once are still in FIFO.
C11_Witness ==
    /\ pc[1] = "idle"
    /\ fifoList # <<>>
    /\ lruList # <<>>
    /\ held[1][Last(lruList)] # "-"
    /\ pageState[Last(lruList)] = "IN_LRU"
    /\ pageState[Last(fifoList)] = "IN_FIFO"

\* C12: a fix that finds its page IN_LRU returns with the page at the tail of
\* LRU; the other entries of LRU keep their relative order, the length of LRU
\* and the FIFO list are unchanged.
C12_LruHitMovesToTail ==
    [][LET p == call[1].page_id IN
         (pc[1] = "fix_in_lru" /\ pc'[1] = "idle") =>
              /\ InSeq(lruList, p)
              /\ Last(lruList') = p
              /\ Len(lruList') = Len(lruList)
              /\ SelectSeq(lruList', LAMBDA q : q # p) = SelectSeq(lruList, LAMBDA q : q # p)
              /\ fifoList' = fifoList
              /\ pageState'[p] = "IN_LRU"]_vars

\* The IN_LRU case is entered for the frame at the head of an LRU list of three.
C12_Witness ==
    /\ pc[1] = "fix_in_lru"
    /\ Len(lruList) = 3
    /\ lruList[1] = call[1].page_id
    /\ fifoList = <<>>

\* The page latch of the frame is held by nobody, in no mode.
LatchFree(q) == \A u \in Threads : ~Holds(pageLatch[q], u)

\* The frame is the first of the list whose page latch is free.
FirstFree(list, q) ==
    \E i \in 1..Len(list) :
        /\ list[i] = q
        /\ LatchFree(q)
        /\ \A j \in 1..(i - 1) : ~LatchFree(list[j])

Content(p) == IF Loaded(p) THEN data[p] ELSE disk[p]

\* C14: the bytes a fix of a page observes change only when a thread that holds
\* the page exclusively writes it and unfixes it dirty; clean unfixes, evictions,
\* reloads and the fixes of other threads leave them as they are.  The dirty bit
\* is cleared only by a flush, which leaves the page's bytes in the segment file,
\* and a thread that holds a page holds it loaded.
C14_DirtyWriteSurvives ==
    [][\A p \in DOMAIN pageState :
         /\ (Content(p)' # Content(p)) =>
               \E t \in Threads :
                   /\ held[t][p] = "X" /\ held'[t][p] = "-"
                   /\ isDirty'[p]
                   /\ Content(p)' = data'[p]
         /\ (isDirty[p] /\ ~isDirty'[p]) => disk'[p] = data[p]
         /\ (isDirty[p] /\ isDirty'[p]) => Loaded(p)'
         /\ \A t \in Threads : held'[t][p] # "-" => Loaded(p)' /\ data'[p] = Content(p)']_vars

\* A page was written, evicted (its dirty bit is clear and the file holds the
\* bytes), loaded again and is fixed; the other thread is in a fix of its own.
C14_Witness ==
    \E p \in DOMAIN pageState, t \in Threads :
        /\ held[t][p] # "-"
        /\ data[p] = Bytes(1)
        /\ disk[p] = Bytes(1)
        /\ ~isDirty[p]
        /\ \E u \in Threads \ {t} : pc[u] = "fix_lock" /\ call[u].page_id # p

\* C15: the destructor, run while no frame is fixed, writes every resident
\* dirty frame to its block of the segment file, so that the file holds the
\* bytes of every page as the last dirty unfix left them; the block of a frame
\* that is not dirty, and of a page that is not resident, stays as it is.
C15_DestructorFlushesDirty ==
    [][(pc[1] = "idle" /\ pc'[1] = "destroyed") =>
         \A p \in DOMAIN pageState :
             /\ (isDirty[p] /\ (InSeq(fifoList, p) \/ InSeq(lruList, p))) => disk'[p] = data[p]
             /\ ~isDirty[p] => disk'[p] = disk[p]
             /\ disk'[p] = Content(p)
             /\ ~isDirty'[p]]_vars

\* The manager is destroyed, no page was ever evicted, and the file holds the
\* bytes written to a page of LRU and to a page of FIFO; another resident page
\* was never written.
C15_Witness ==
    /\ pc[1] = "destroyed"
    /\ Cardinality(pageTable) <= pageCount
    /\ \E p \in Range(lruList) : disk[p] = Bytes(1)
    /\ \E p \in Range(fifoList) : disk[p] = Bytes(1)
    /\ Len(fifoList) + Len(lruList) = 3

\* C16: from the choice of a victim to its eviction the evicting thread holds
\* the victim's page latch exclusively and nobody else holds it or has the
\* frame fixed; the victim is IN_FIFO or IN_LRU, never LOADING; a frame is
\* unloaded only by the thread that holds it as its victim, and that step
\* leaves it flushed, NOT_LOADED and freed.
C16_VictimLatchedByEvictor ==
    /\ [](\A t \in Threads :
            pc[t] = "insertBufferFrame_evict" =>
                LET v == call[t].bf IN
                  /\ pageLatch[v].x = {t}
                  /\ pageLatch[v].s = {}
                  /\ \A u \in Threads : held[u][v] = "-"
                  /\ \A u \in Threads \ {t} : pc[u] = "insertBufferFrame_evict" => call[u].bf # v
                  /\ Loaded(v)
                  /\ dataPtr[v] = "valid"
                  /\ loadingLatch[v] = {})
    /\ [][\A q \in DOMAIN pageState :
            (Loaded(q) /\ ~Loaded(q)') =>
                \E t \in Threads :
                    /\ pc[t] = "insertBufferFrame_evict" /\ call[t].bf = q
                    /\ pageLatch[q].x = {t} /\ pageLatch'[q] = Latch
                    /\ pageState'[q] = "NOT_LOADED"
                    /\ ~isDirty'[q] /\ disk'[q] = data[q]
                    /\ dataPtr'[q] = "freed"]_vars

\* A thread is about to evict its victim while the other thread, in a fix of the
\* same page, waits for the victim's latch.
C16_Witness ==
    \E t \in Threads, u \in Threads :
        /\ t # u
        /\ pc[t] = "insertBufferFrame_evict"
        /\ isDirty[call[t].bf]
        /\ pc[u] = "fix_lock"
        /\ call[u].page_id = call[t].bf

\* C17: the data pointer of a frame is non-null exactly when the frame is
\* IN_FIFO or IN_LRU; it is null for a frame never loaded and null again for a
\* frame evicted and set to NOT_LOADED.
C17_DataNonNullIffLoaded ==
    \A p \in DOMAIN pageState : (dataPtr[p] # "null") <=> Loaded(p)

\* The number of places of the list that hold the frame.
Occurrences(list, q) == Cardinality({i \in 1..Len(list) : list[i] = q})

\* A thread has taken the frame as its victim and has not yet evicted it.
IsVictim(q) == \E t \in Threads : pc[t] = "insertBufferFrame_evict" /\ call[t].bf = q

\* A thread has put the frame into FIFO and has not yet finished loading it.
IsBeingLoaded(q) ==
    \E t \in Threads :
        /\ pc[t] = "insertBufferFrame_evict" \/ pc[t] = "loadPage_data"
        /\ call[t].page_id = q

\* C18 as stated: every frame occurs at most once in FIFO and LRU together, is
\* in FIFO exactly when it is IN_FIFO and in LRU exactly when it is IN_LRU.
C18_MembershipAgreesWithState ==
    \A q \in DOMAIN pageState :
        /\ Occurrences(fifoList, q) + Occurrences(lruList, q) <= 1
        /\ InSeq(fifoList, q) <=> pageState[q] = "IN_FIFO"
        /\ InSeq(lruList, q) <=> pageState[q] = "IN_LRU"

\* C18: every frame occurs at most once in FIFO and LRU together.  A frame that
\* is neither a chosen victim nor in the middle of its load is in FIFO exactly
\* when it is IN_FIFO and in LRU exactly when it is IN_LRU.  A chosen victim is
\* in neither list while it is still IN_FIFO or IN_LRU; a frame in the middle of
\* its load is in FIFO while it is still LOADING; a NOT_LOADED frame is in
\* neither list.
C18_MembershipOutsideLoadAndEviction ==
    \A q \in DOMAIN pageState :
        /\ Occurrences(fifoList, q) + Occurrences(lruList, q) <= 1
        /\ InSeq(fifoList, q) <=>
              \/ pageState[q] = "IN_FIFO" /\ ~IsVictim(q)
              \/ pageState[q] = "LOADING" /\ IsBeingLoaded(q)
        /\ InSeq(lruList, q) <=> (pageState[q] = "IN_LRU" /\ ~IsVictim(q))
        /\ IsVictim(q) => Loaded(q)
        /\ IsBeingLoaded(q) => pageState[q] = "LOADING"

\* The page being loaded is in FIFO and LOADING, the victim it displaced is in
\* no list and still IN_LRU.
C18_Witness ==
    \E t \in Threads :
        /\ pc[t] = "insertBufferFrame_evict"
        /\ pageState[call[t].bf] = "IN_LRU"
        /\ ~InSeq(lruList, call[t].bf)
        /\ InSeq(fifoList, call[t].page_id)
        /\ pageState[call[t].page_id] = "LOADING"

\* ------------------------------------------------------------ properties of root and height
\* The thread takes a step of a lookup or an erase.
ReadOrEraseStep(t) ==
    /\ tl[t].op = "lookup" \/ tl[t].op = "erase"
    /\ pc[t] # "idle"
    /\ pc'[t] # pc[t]

\* C19: treeHeight never decreases; root changes only in the step of grow_root
\* that publishes the new root; treeHeight changes only in the step of
\* grow_root that follows it, by exactly one, so that the height is the level of
\* the root plus one outside that window; no step of a lookup or of an erase
\* changes root, treeHeight or nodeCount.
C19_RootAndHeightChangeOnlyInGrowRoot ==
    /\ [](IF \E t \in Threads : pc[t] = "grow_root_height"
          THEN treeHeight = PageOf(root).level
          ELSE treeHeight = PageOf(root).level + 1)
    /\ [][/\ treeHeight' >= treeHeight
          /\ (root' # root) =>
                \E t \in Threads :
                    /\ pc[t] = "grow_root" /\ pc'[t] = "grow_root_height"
                    /\ tl[t].op = "insert"
                    /\ root' = tl[t].newRoot
          /\ (treeHeight' # treeHeight) =>
                /\ treeHeight' = treeHeight + 1
                /\ \E t \in Threads :
                      /\ pc[t] = "grow_root_height" /\ pc'[t] # "grow_root_height"
                      /\ tl[t].op = "insert"
          /\ \A t \in Threads :
                ReadOrEraseStep(t) =>
                    root' = root /\ treeHeight' = treeHeight /\ nodeCount' = nodeCount]_vars

\* The root has grown twice, and while the first thread is between publishing
\* a new root and raising the height, the second thread is in an erase.
C19_Witness ==
    /\ pc[1] = "grow_root_height"
    /\ treeHeight = 2
    /\ tl[2].op = "erase"
    /\ pc[2] = "fix_root"

\* ------------------------------------------------------------ properties of the nodes
StrictlyIncreasing(seq) == \A i \in 1..(Len(seq) - 1) : seq[i] < seq[i + 1]

\* C20: in every leaf the count keys are strictly increasing, there is one
\* value per key and count is at most the capacity of a leaf; in every inner
\* node the count - 1 separators are strictly increasing, there are count
\* children and count is at most the capacity of an inner node; between
\* operations the value beside a key is the value last inserted with it.
C20_NodeKeysStrictlyIncreasing ==
    \A p \in DOMAIN pageState :
        LET node == PageOf(p) IN
          IF is_leaf(node)
          THEN /\ Len(node.keys) = node.count
               /\ Len(node.vals) = node.count
               /\ StrictlyIncreasing(node.keys)
               /\ node.count <= LeafCapacity
               /\ (\A t \in Threads : Idle(t)) =>
                     \A i \in 1..node.count : node.vals[i] = model[node.keys[i]]
          ELSE /\ Len(node.keys) = node.count - 1
               /\ Len(node.children) = node.count
               /\ StrictlyIncreasing(node.keys)
               /\ node.count <= InnerCapacity
               /\ node.count >= 1

\* An insert has just split a leaf and put the separator into its parent, which
\* now holds two separators and three children; one leaf below an inner node
\* was emptied by an erase.
C20_Witness ==
    /\ pc[1] = "unfix_split"
    /\ \E p \in DOMAIN pageState : ~is_leaf(PageOf(p)) /\ PageOf(p).count = InnerCapacity
    /\ \E p \in DOMAIN pageState :
          /\ PageOf(p).level = 1
          /\ \E i \in 1..PageOf(p).count : PageOf(PageOf(p).children[i]).count = 0

reference_lower_bound(range, val) ==
    Min({i \in 0..Len(range) : i = Len(range) \/ range[i + 1] >= val})

\* C22: for every sorted range, the empty one and ranges with repeated elements
\* included, and every value, lower_bound_branchless returns the smallest index
\* in 0..len whose element is >= the value (len when there is none), which is
\* what the reference lower bound returns, and it dereferences no index
\* outside 0..len - 1.
C22_LowerBoundBranchlessIsLowerBound ==
    (pc[1] = "done" /\ tl[1].op = "lower_bound") =>
        LET range == data[LeftPid].keys
            val == tl[1].key
            lbb == tl[1].ret
        IN /\ lbb \in 0..Len(range)
           /\ \A i \in 1..lbb : range[i] < val
           /\ \A i \in (lbb + 1)..Len(range) : range[i] >= val
           /\ lbb = reference_lower_bound(range, val)
           /\ Len(range) > 0 =>
                 lower_bound_reads(range, val, Len(range), 0) \subseteq 0..(Len(range) - 1)

\* The lower bound of a value was taken in a range of MaxLen elements that
\* holds the value more than once, after a smaller element.
C22_Witness ==
    /\ pc[1] = "done"
    /\ tl[1].op = "lower_bound"
    /\ Len(data[LeftPid].keys) = MaxLen
    /\ tl[1].ret = 1
    /\ data[LeftPid].keys[2] = tl[1].key
    /\ data[LeftPid].keys[3] = tl[1].key

\* ------------------------------------------------------------ properties of the first split
\* C23: a fresh tree is one empty leaf of height 1.  The insert of a new key
\* into a root leaf with space leaves the root a leaf with one more entry and
\* the height 1; the insert of a new key into a full root leaf makes the root
\* an inner node of count 2 whose children are the old root and one new leaf,
\* makes the height 2, and lookup finds the new key and every earlier key.
C23_FirstSplitGrowsRoot ==
    LET first == MakePid(segment_id, 0)
        intoRootLeaf == Idle(1) /\ tl[1].op = "insert" /\ ~tl[1].pre.present /\ tl[1].pre.nodes = 1
    IN /\ nodeCount = 1 =>
             /\ root = first /\ treeHeight = 1 /\ is_leaf(PageOf(root))
             /\ Idle(1) => PageOf(root).count = Cardinality({k \in Keys : model[k] # 0})
       /\ (intoRootLeaf /\ tl[1].pre.count < LeafCapacity) =>
             /\ root = first /\ treeHeight = 1 /\ nodeCount = 1
             /\ is_leaf(PageOf(root))
             /\ PageOf(root).count = tl[1].pre.count + 1
       /\ (intoRootLeaf /\ tl[1].pre.count = LeafCapacity) =>
             /\ treeHeight = 2
             /\ nodeCount = 3
             /\ root # first
             /\ ~is_leaf(PageOf(root))
             /\ PageOf(root).count = 2
             /\ PageOf(root).children[1] = first
             /\ PageOf(root).children[2] \notin {first, root}
             /\ is_leaf(PageOf(PageOf(root).children[1]))
             /\ is_leaf(PageOf(PageOf(root).children[2]))
             /\ Stored(tl[1].key) = tl[1].value
             /\ \A k \in Keys : Stored(k) = model[k]
             /\ Cardinality({k \in Keys : model[k] # 0}) = LeafCapacity + 1

\* The insert of a new key into the full root leaf has returned.
C23_Witness ==
    /\ Idle(1)
    /\ tl[1].op = "insert"
    /\ ~tl[1].pre.present
    /\ tl[1].pre.nodes = 1
    /\ tl[1].pre.count = LeafCapacity
    /\ treeHeight = 2

\* ------------------------------------------------------------ properties of the latches of the tree
\* The frames thread t has fixed.
HeldBy(t) == {p \in DOMAIN pageLatch : held[t][p] # "-"}

\* The thread is inside fix_page for a page of the tree.
FixPcs == {"fix_root", "fix_child", "fix_right", "grow_root_fix"}

\* The page the thread is about to fix.
FixTarget(t) ==
    CASE pc[t] = "fix_root" -> tl[t].currentFrame
      [] pc[t] = "fix_child" -> tl[t].child
      [] pc[t] = "fix_right" -> tl[t].rightBf
      [] pc[t] = "grow_root_fix" -> tl[t].newRoot

\* C24: a thread back from lookup, insert or erase holds no page latch and has
\* no frame fixed.  On the way every unfix is an unfix of a frame the thread has
\* fixed (after the root check, when moving down, at the leaf, before the
\* restart in exclusive mode, after a split), no frame is fixed while the
\* thread already has it fixed, and the thread holds a page latch exactly for
\* the frames it has fixed.
C24_NoLatchHeldOnReturn ==
    /\ [](\A t \in Threads :
            /\ (Idle(t) /\ tl[t].op \in {"lookup", "insert", "erase"}) =>
                  \A p \in DOMAIN pageLatch : held[t][p] = "-" /\ ~Holds(pageLatch[p], t)
            /\ \A p \in DOMAIN pageLatch :
                  /\ held[t][p] = "X" <=> t \in pageLatch[p].x
                  /\ held[t][p] = "S" <=> t \in pageLatch[p].s
            /\ pc[t] \in FixPcs => held[t][FixTarget(t)] = "-")
    /\ [][\A t \in Threads :
            LET cur == tl[t].currentFrame
                parent == tl[t].parentFrame
            IN /\ (pc[t] = "check_root" /\ pc'[t] = "restart") =>
                    /\ HeldBy(t) = {cur}
                    /\ HeldBy(t)' = {}
               /\ (pc[t] = "descend" /\ pc'[t] = "fix_child") =>
                    /\ HeldBy(t) = Frames({parent, cur})
                    /\ HeldBy(t)' = {cur}
               /\ (pc[t] = "descend" /\ pc'[t] \in {"idle", "restart"}) =>
                    /\ HeldBy(t) = Frames({parent, cur})
                    /\ cur # NullFrame
                    /\ HeldBy(t)' = {}
               /\ (pc[t] = "unfix_split" /\ pc'[t] = "restart") =>
                    /\ HeldBy(t) = {tl[t].rightBf, cur, parent}
                    /\ Cardinality(HeldBy(t)) = 3
                    /\ HeldBy(t)' = {}
               /\ (pc[t] \in FixPcs /\ pc'[t] \notin FixPcs /\ pc'[t] # "buffer_full_error") =>
                    HeldBy(t)' = HeldBy(t) \cup {FixTarget(t)}
               /\ (pc'[t] = pc[t] \/ pc[t] \notin FixPcs \cup {"check_root", "descend", "unfix_split"}) =>
                    HeldBy(t)' = HeldBy(t)]_vars

\* Both threads are back, the first from an insert and the second from an
\* erase, in a tree whose root has grown twice; every page latch is free.
C24_Witness ==
    /\ Idle(1) /\ tl[1].op = "insert"
    /\ Idle(2) /\ tl[2].op = "erase"
    /\ treeHeight = 3
    /\ \A p \in DOMAIN pageLatch : pageLatch[p] = Latch

\* The thread is in the descent of an operation: from the read of root to the leaf.
DescentPcs == {"restart", "root_mode", "fix_root", "check_root", "descend", "fix_child"}

\* C25: in the descent of lookup, erase and insert a thread has at most two
\* frames fixed, the parent and the current node.  Moving down releases the
\* grandparent and keeps the current node, which becomes the parent; the child
\* is fixed while the parent is held, and the parent stays held in the mode it
\* was fixed in until the child is fixed.
C25_AtMostParentAndCurrent ==
    /\ [](\A t \in Threads :
            /\ pc[t] \in DescentPcs =>
                  /\ Cardinality(HeldBy(t)) <= 2
                  /\ HeldBy(t) \subseteq {tl[t].parentFrame, tl[t].currentFrame}
            /\ pc[t] = "fix_child" =>
                  /\ tl[t].parentFrame # NullFrame
                  /\ HeldBy(t) = {tl[t].parentFrame}
            /\ pc[t] = "descend" =>
                  HeldBy(t) = Frames({tl[t].parentFrame, tl[t].currentFrame}))
    /\ [][\A t \in Threads :
            /\ (pc[t] = "descend" /\ pc'[t] = "fix_child") =>
                  /\ tl'[t].parentFrame = tl[t].currentFrame
                  /\ tl[t].parentFrame # NullFrame => held'[t][tl[t].parentFrame] = "-"
                  /\ held'[t][tl[t].currentFrame] = held[t][tl[t].currentFrame]
            /\ (pc[t] = "fix_child" /\ pc'[t] = "descend") =>
                  /\ held'[t][tl[t].parentFrame] = held[t][tl[t].parentFrame]
                  /\ held[t][tl[t].parentFrame] # "-"
                  /\ tl'[t].parentFrame = tl[t].parentFrame
                  /\ tl'[t].currentFrame = tl[t].child
                  /\ HeldBy(t)' = {tl[t].parentFrame, tl[t].child}
                  /\ Cardinality(HeldBy(t)') = 2]_vars

\* A lookup in a tree of three levels stands on a leaf: it holds the leaf and
\* its parent, and it has released the root.
C25_Witness ==
    \E t \in Threads :
        /\ pc[t] = "descend"
        /\ tl[t].op = "lookup"
        /\ treeHeight = 3
        /\ is_leaf(data[tl[t].currentFrame])
        /\ Cardinality(HeldBy(t)) = 2
        /\ held[t][root] = "-"
        /\ \E u \in Threads \ {t} : HeldBy(u) # {}

\* ------------------------------------------------------------ termination
\* Thread t is inside fix_page and waits for a page latch thread u holds.
WaitsFor(t, u) ==
    /\ pc[t] \in FixPcs
    /\ FixBlocked(FixTarget(t), IF pc[t] \in {"fix_root", "fix_child"} THEN tl[t].mode ELSE TRUE)
    /\ Holds(pageLatch[FixTarget(t)], u)

PassOne(t) ==
    /\ tl[t].op = "insert"
    /\ ~tl[t].exclusive
    /\ pc[t] \in {"descend", "fix_child"}

\* C27 as stated: in the first pass of insert on a tree of height >= 2 the
\* inner node of level 1 and the leaf are fixed exclusively, the inner nodes
\* of level >= 2 shared.
C27_LevelOneAndLeafExclusive ==
    \A t \in Threads :
        (PassOne(t) /\ treeHeight >= 2) =>
            \A p \in HeldBy(t) :
                held[t][p] = (IF data[p].level <= 1 THEN "X" ELSE "S")

\* C27, amended: in the first pass of insert the leaf is fixed exclusively and
\* every inner node below the root is fixed shared, the node of level 1
\* included.  The root is fixed exclusively exactly when treeHeight == 1 was
\* read before the fix, a child exactly when its parent has level 1.
C27_OnlyLeafExclusive ==
    /\ [](\A t \in Threads :
            PassOne(t) =>
                \A p \in HeldBy(t) :
                    /\ is_leaf(data[p]) => held[t][p] = "X"
                    /\ (~is_leaf(data[p]) /\ p # root) => held[t][p] = "S")
    /\ [][\A t \in Threads :
            (tl[t].op = "insert" /\ ~tl[t].exclusive) =>
                /\ (pc[t] = "root_mode" /\ pc'[t] = "fix_root") =>
                      tl'[t].mode = (treeHeight = 1)
                /\ (pc[t] = "descend" /\ pc'[t] = "fix_child") =>
                      tl'[t].mode = (data[tl[t].currentFrame].level = 1)
                /\ (pc[t] \in {"fix_root", "fix_child"} /\ pc'[t] \in {"check_root", "descend"}) =>
                      held'[t][FixTarget(t)] = (IF tl[t].mode THEN "X" ELSE "S")]_vars

\* An insert in its first pass stands on a leaf of a tree of three levels: it
\* holds the leaf exclusively and the parent of the leaf, of level 1, shared.
C27_Witness ==
    \E t \in Threads :
        /\ PassOne(t)
        /\ pc[t] = "descend"
        /\ treeHeight = 3
        /\ is_leaf(data[tl[t].currentFrame])
        /\ held[t][tl[t].currentFrame] = "X"
        /\ tl[t].parentFrame # NullFrame
        /\ data[tl[t].parentFrame].level = 1
        /\ held[t][tl[t].parentFrame] = "S"

\* ------------------------------------------------------------ writes under the exclusive latch
\* Thread t holds the latch of page p exclusively, and alone.
HoldsExclusive(t, p) ==
    /\ p # NullFrame
    /\ held[t][p] = "X"
    /\ pageLatch[p].x = {t}
    /\ pageLatch[p].s = {}

\* C28: a thread writes a node page only while it holds the latch of the page
\* exclusively: the leaf of insert and erase, the node that is split, its new
\* sibling, the parent that takes the separator and the new root.  An erase or
\* insert that stands on a leaf past the check of the root has the leaf fixed
\* exclusively, also when the root grew while it read root and treeHeight.
C28_WritesUnderExclusiveLatch ==
    /\ [](\A t \in Threads :
            /\ (pc[t] = "descend" /\ tl[t].op \in {"insert", "erase"}
                  /\ is_leaf(data[tl[t].currentFrame])) =>
                  HoldsExclusive(t, tl[t].currentFrame)
            /\ pc[t] = "split" =>
                  /\ HoldsExclusive(t, tl[t].currentFrame)
                  /\ HoldsExclusive(t, tl[t].rightBf)
                  /\ tl[t].parentFrame # NullFrame => HoldsExclusive(t, tl[t].parentFrame)
            /\ pc[t] = "grow_root" => HoldsExclusive(t, tl[t].newRoot))
    /\ [][\A t \in Threads :
            (pc[t] \in {"descend", "split", "grow_root"} /\ pc'[t] # pc[t]) =>
                \A p \in DOMAIN data :
                    data'[p] # data[p] => HoldsExclusive(t, p)]_vars

\* An erase that started on a tree of one node stands on that node, now a leaf
\* below a new root, and has it fixed exclusively: the root grew while the
\* erase was on its way.
C28_Witness ==
    \E t \in Threads :
        /\ pc[t] = "descend"
        /\ tl[t].op = "erase"
        /\ tl[t].pre.nodes = 1
        /\ tl[t].currentFrame = MakePid(segment_id, 0)
        /\ tl[t].parentFrame = root
        /\ root # tl[t].currentFrame
        /\ is_leaf(data[tl[t].currentFrame])
        /\ HoldsExclusive(t, tl[t].currentFrame)
        /\ tl[t].pre.present

\* ------------------------------------------------------------ dirty unfixes of the tree
\* Thread t unfixes page p in this step.
Unfixes(t, p) == held[t][p] # "-" /\ held'[t][p] = "-"

\* C29: a tree operation never unfixes with is_dirty = true a frame it fixed
\* shared: the unfix of a shared frame leaves the dirty bit as it is, and a
\* dirty bit is set only by the thread that holds the frame exclusively.
\* Every frame an operation modified is unfixed with is_dirty = true: the leaf
\* of insert and of an erase that removed the key, and the three frames of a
\* split; so a loaded page that differs from its block on disk is dirty or is
\* still fixed exclusively by its writer.  The root leaf of the constructor is
\* dirty until it is flushed.
C29_DirtyUnfixOnlyExclusiveAndAlwaysAfterWrite ==
    /\ [](\A p \in DOMAIN data :
            (Loaded(p) /\ data[p] # disk[p]) =>
                isDirty[p] \/ \E t \in Threads : held[t][p] = "X")
    /\ [][\A t \in Threads : \A p \in DOMAIN data :
            /\ (Unfixes(t, p) /\ held[t][p] = "S") => isDirty'[p] = isDirty[p]
            /\ (isDirty'[p] /\ ~isDirty[p]) => (Unfixes(t, p) => held[t][p] = "X")
            /\ (isDirty'[p] /\ ~isDirty[p]) => \E u \in Threads : Unfixes(u, p) /\ held[u][p] = "X"
            /\ (Unfixes(t, p) /\ (data'[p] # data[p] \/ pc[t] = "unfix_split")) => isDirty'[p]]_vars

\* The second thread is back from an erase that removed its key: the leaf is
\* loaded, dirty, not fixed by anyone and differs from its block on disk, while
\* the first thread has a frame fixed shared.
C29_Witness ==
    /\ Idle(2)
    /\ tl[2].op = "erase"
    /\ tl[2].pre.present
    /\ Loaded(LeafOf(MixKey))
    /\ isDirty[LeafOf(MixKey)]
    /\ data[LeafOf(MixKey)] # disk[LeafOf(MixKey)]
    /\ \A u \in Threads : held[u][LeafOf(MixKey)] = "-"
    /\ \E p \in DOMAIN data : held[1][p] = "S"

\* ------------------------------------------------------------ a lookup beside inserts
\* The value a descent for key from page p finds, 0 when it finds none.
ValueBelow(p, key) ==
    LET leaf == PageOf(Descend(p, key, MaxNodes))
        pos == LeafNode_lower_bound(leaf, key)
    IN IF pos[2] THEN leaf.vals[pos[1] + 1] ELSE 0

\* C30: a lookup of a key whose insert returned before the lookup started
\* returns the value stored for it, whatever splits and root growths the
\* inserts of other keys run beside it.  The lookup descends from a page only
\* when root still is that page after the fix, and unfixes it and restarts
\* otherwise; past that check the subtree under the node it stands on holds
\* the key.
C30_LookupFindsCompletedInserts ==
    /\ [](\A t \in Threads :
            /\ (Idle(t) /\ tl[t].op = "lookup") =>
                  /\ tl[t].ret = model[tl[t].key]
                  /\ tl[t].ret = 2 * tl[t].key
            /\ (tl[t].op = "lookup" /\ pc[t] \in {"descend", "fix_child"}) =>
                  ValueBelow(tl[t].currentFrame, tl[t].key) = model[tl[t].key])
    /\ [][\A t \in Threads :
            /\ (pc[t] = "check_root" /\ pc'[t] = "descend") =>
                  /\ root = tl[t].currentFrame
                  /\ held[t][tl[t].currentFrame] # "-"
                  /\ held'[t] = held[t]
            /\ (pc[t] = "check_root" /\ pc'[t] = "restart") =>
                  /\ root # tl[t].currentFrame
                  /\ HeldBy(t)' = {}]_vars

\* A lookup has returned the value of its key from a page that did not exist
\* when the lookup started: a split moved the key while the lookup was on its
\* way, and the root has grown.
C30_Witness ==
    /\ Idle(2)
    /\ tl[2].op = "lookup"
    /\ tl[2].ret = 2 * tl[2].key
    /\ tl[2].pre.nodes < nodeCount
    /\ LeafOf(tl[2].key)[2] >= tl[2].pre.nodes
    /\ treeHeight >= 2
    /\ pc[1] # "idle"

\* ------------------------------------------------------------ separators
\* The keys of the subtree of page p are greater than lo and at most hi, and
\* so are, between its separators, the keys of the subtrees of its children;
\* every inner node has count children and count - 1 separators.
RECURSIVE SubtreeInRange(_, _, _, _)
SubtreeInRange(p, lo, hi, fuel) ==
    LET node == PageOf(p)
    IN IF is_leaf(node)
       THEN \A i \in 1..node.count : lo < node.keys[i] /\ node.keys[i] <= hi
       ELSE /\ fuel > 0
            /\ node.count >= 1
            /\ Len(node.children) = node.count
            /\ Len(node.keys) = node.count - 1
            /\ \A i \in 1..node.count :
                 SubtreeInRange(node.children[i],
                                IF i = 1 THEN lo ELSE node.keys[i - 1],
                                IF i = node.count THEN hi ELSE node.keys[i],
                                fuel - 1)

\* C31: between operations, the keys of the subtree of child i of every inner
\* node are greater than separator i - 1 and at most separator i, every inner
\* node has one more child than separators, and the descent by the lower
\* bound ends in the only leaf that holds the key: no other page holds it,
\* and the key of every pair of the map is found there.
C31_SeparatorsBoundSubtrees ==
    (\A t \in Threads : Idle(t)) =>
        /\ SubtreeInRange(root, 0, MaxKey + 1, MaxNodes)
        /\ ~is_leaf(PageOf(root)) => PageOf(root).count >= 2
        /\ \A k \in Keys :
             /\ \A p \in TreePids :
                  (is_leaf(PageOf(p)) /\ \E i \in 1..PageOf(p).count : PageOf(p).keys[i] = k) =>
                      p = LeafOf(k)
             /\ Stored(k) = model[k]

\* Between operations the tree has three levels, the erase of the second
\* thread has emptied a leaf and an inner node below the root has at least two
\* children.
C31_Witness ==
    /\ \A t \in Threads : Idle(t)
    /\ treeHeight = 3
    /\ tl[2].op = "erase"
    /\ PageOf(LeafOf(MixKey)).count = 0
    /\ \E p \in TreePids \ {root} : ~is_leaf(PageOf(p)) /\ PageOf(p).count >= 2
    /\ \E k \in Keys \ {MixKey} : model[k] # 0 /\ LeafOf(k) # LeafOf(MixKey)

\* ------------------------------------------------------------ assertions of the split path
\* C32: the assertions of the split path hold in every execution of
\* concurrent inserts and erases.  When a split calls insert_split on the
\* parent, the parent has space and the separator is not one of its keys, so
\* no thread ends in a failed assertion; when insert writes a pair into a
\* leaf, the leaf has space, and no node ever holds more than its capacity.
C32_SplitAssertionsHold ==
    /\ [](\A t \in Threads : pc[t] # "assert_failed")
    /\ [](\A p \in TreePids :
            PageOf(p).count <= (IF is_leaf(PageOf(p)) THEN LeafCapacity ELSE InnerCapacity))
    /\ [][\A t \in Threads :
            LET cur == tl[t].currentFrame
                parent == tl[t].parentFrame
            IN /\ (pc[t] = "split" /\ pc'[t] = "unfix_split") =>
                    /\ parent # NullFrame
                    /\ InnerNode_has_space(data[parent])
                    /\ \A i \in 1..(data[parent].count - 1) :
                         data[parent].keys[i] # tl'[t].splitKey
                    /\ data'[parent].count = data[parent].count + 1
               /\ (pc[t] = "descend" /\ pc'[t] = "idle" /\ tl[t].op = "insert") =>
                    /\ LeafNode_has_space(data[cur])
                    /\ data'[cur].count <= LeafCapacity]_vars

\* A split has put its separator into a parent that is full now, while the
\* other thread is in the middle of an erase.
C32_Witness ==
    \E t \in Threads, u \in Threads :
        /\ pc[t] = "unfix_split"
        /\ data[tl[t].parentFrame].count = InnerCapacity
        /\ data[tl[t].parentFrame].keys[InnerNode_lower_bound(data[tl[t].parentFrame], tl[t].splitKey)[1] + 1]
             = tl[t].splitKey
        /\ u # t
        /\ tl[u].op = "erase"
        /\ pc[u] # "idle"

\* ------------------------------------------------------------ one load per residency
\* Thread t is the loader of page p: between the loading latch and its release.
IsLoader(t, p) ==
    /\ pc[t] \in {"insertBufferFrame", "insertBufferFrame_evict", "loadPage_data", "loadPage_fail"}
    /\ call[t].page_id = p

\* C33: threads that fix the same page that is not resident load it once.
\* loadPage never finds the frame LOADING under the loading latch; a page has
\* at most one loader, which holds its loading latch; a buffer is read from the
\* segment file only for a frame that is LOADING, has no valid buffer, is in
\* the FIFO list once and is fixed by no thread; and while a thread has the
\* frame fixed its buffer is not replaced: a fix that succeeds returns the
\* frame loaded, with the buffer the loader read.
C33_PageLoadedOnce ==
    /\ [](\A t \in Threads : pc[t] # "runtime_error")
    /\ [](\A p \in Pids :
            /\ Cardinality({t \in Threads : IsLoader(t, p)}) <= 1
            /\ \A t \in Threads : IsLoader(t, p) => loadingLatch[p] = {t}
            /\ (\E t \in Threads : held[t][p] # "-") => Loaded(p) /\ dataPtr[p] = "valid"
            /\ Occurrences(fifoList, p) + Occurrences(lruList, p) <= 1)
    /\ [][\A p \in Pids :
            /\ (\E t \in Threads : pc[t] = "loadPage_data" /\ pc'[t] = "idle" /\ call[t].page_id = p) =>
                  /\ pageState[p] = "LOADING"
                  /\ dataPtr[p] # "valid"
                  /\ Occurrences(fifoList, p) = 1
                  /\ \A u \in Threads : held[u][p] = "-"
                  /\ data'[p] = disk[p]
            /\ (\E t \in Threads : held[t][p] # "-" /\ held'[t][p] # "-") =>
                  /\ dataPtr'[p] = "valid"
                  /\ data'[p] = data[p]
            /\ \A t \in Threads :
                  (held[t][p] = "-" /\ held'[t][p] # "-") =>
                      /\ Loaded(p)'
                      /\ dataPtr'[p] = "valid"
                      /\ (pc[t] # "loadPage_data" => data'[p] = data[p] /\ dataPtr[p] = "valid")]_vars

\* Both threads have fixed the same page shared and the frame is still IN_FIFO:
\* one of them loaded it, the other came while it was not resident and found
\* it loaded after the wait for the loading latch.
C33_Witness ==
    \E p \in Pids :
        /\ held[1][p] = "S"
        /\ held[2][p] = "S"
        /\ pageState[p] = "IN_FIFO"
        /\ Occurrences(fifoList, p) = 1
        /\ dataPtr[p] = "valid"

\* ------------------------------------------------------------ order of the latches
\* The latch of the buffer manager the next step of thread t acquires.
LatchWanted(t) ==
    CASE pc[t] \in {"getBufferFrame", "getBufferFrame_lock"} -> "pageTableLatch"
      [] pc[t] \in {"fix_in_fifo", "insertBufferFrame"} -> "fifoListLatch"
      [] pc[t] \in {"fix_in_fifo_lock_lru", "fix_in_lru", "insertBufferFrame_lock_shared",
                    "insertBufferFrame_lock_lru"} -> "lruListLatch"
      [] pc[t] \in {"fix_lock", "insertBufferFrame_scan_fifo", "insertBufferFrame_scan_lru"} -> "pageLatch"
      [] pc[t] \in {"loadPage", "fix_loading"} -> "loadingLatch"
      [] OTHER -> "none"

\* C34: no thread waits for the FIFO latch while it holds the LRU latch, and a
\* thread that takes the LRU latch beside the FIFO latch holds the FIFO latch
\* already; no thread holds the page-table latch while it acquires a page
\* latch, a loading latch or a queue latch.  Every latch has one exclusive
\* holder or shared holders only.
C34_FifoBeforeLruPageTableAlone ==
    /\ [](\A t \in Threads :
            /\ LatchWanted(t) = "fifoListLatch" => ~HoldsLatch(t, "lruListLatch")
            /\ LatchWanted(t) \in {"fifoListLatch", "lruListLatch", "pageLatch", "loadingLatch"} =>
                  ~HoldsLatch(t, "pageTableLatch")
            /\ \A l \in {"pageTableLatch", "fifoListLatch", "lruListLatch"} :
                  <<l, "X">> \in call[t].latches =>
                      \A u \in Threads \ {t} : ~HoldsLatch(u, l))
    /\ [][\A t \in Threads :
            /\ (~HoldsLatch(t, "fifoListLatch") /\ HoldsLatch(t, "fifoListLatch")') =>
                  call[t].latches = {}
            /\ (~HoldsLatch(t, "lruListLatch") /\ HoldsLatch(t, "lruListLatch")') =>
                  call[t].latches \subseteq {<<"fifoListLatch", "X">>}
            /\ ((\E p \in Pids : ~Holds(pageLatch[p], t) /\ Holds(pageLatch[p], t)')
                  \/ (\E p \in Pids : t \notin loadingLatch[p] /\ t \in loadingLatch'[p])) =>
                  ~HoldsLatch(t, "pageTableLatch")]_vars

\* One thread holds the FIFO latch and waits for the LRU latch, which the
\* other thread holds alone, for the move of a page in LRU.
C34_Witness ==
    \E t \in Threads, u \in Threads :
        /\ t # u
        /\ HoldsLatch(t, "fifoListLatch")
        /\ LatchWanted(t) = "lruListLatch"
        /\ <<"lruListLatch", "X">> \in call[u].latches
        /\ ~HoldsLatch(u, "fifoListLatch")

\* ------------------------------------------------------------ erase leaves the structure alone
\* The pages of the subtree of page p.
RECURSIVE Subtree(_, _)
Subtree(p, fuel) ==
    LET node == PageOf(p)
    IN IF is_leaf(node) \/ fuel = 0
       THEN {p}
       ELSE {p} \cup UNION {Subtree(node.children[i], fuel - 1) : i \in 1..node.count}

\* C35: erase does not change the structure of the tree.  A step of erase
\* leaves root, nodeCount and treeHeight alone and changes the content of no
\* page but the leaf it stands on, which loses the pair of the key and is
\* unfixed dirty; an erase of a key that is not there changes no page and sets
\* no dirty bit.  Between operations every node ever created is in the tree
\* under root, the leaves erase has emptied included, and the tree holds the
\* pairs of the map: an insert into an emptied leaf is found again.
C35_EraseKeepsStructure ==
    /\ [](Idle(1) =>
            /\ Subtree(root, MaxNodes) = {p \in TreePids : p[2] < nodeCount}
            /\ \A k \in Keys : Stored(k) = model[k])
    /\ [][(tl[1].op = "erase" /\ ~Idle(1)) =>
            /\ root' = root
            /\ nodeCount' = nodeCount
            /\ treeHeight' = treeHeight
            /\ \A p \in TreePids :
                 PageOf(p)' # PageOf(p) =>
                     /\ p = tl[1].currentFrame
                     /\ pc[1] = "descend" /\ Idle(1)'
                     /\ is_leaf(PageOf(p)) /\ is_leaf(PageOf(p)')
                     /\ PageOf(p)' = LeafNode_erase(PageOf(p), tl[1].key)[1]
                     /\ PageOf(p)'.count = PageOf(p).count - 1
                     /\ tl[1].pre.present
                     /\ isDirty'[p]
            /\ ~tl[1].pre.present =>
                 \A p \in TreePids : PageOf(p)' = PageOf(p) /\ (isDirty'[p] => isDirty[p])]_vars

\* An insert has put its key into a leaf that an erase had emptied, below an
\* inner root, and the key is found in that leaf.
C35_Witness ==
    /\ Idle(1)
    /\ tl[1].op = "insert"
    /\ tl[1].pre.count = 0
    /\ treeHeight >= 2
    /\ nodeCount = tl[1].pre.nodes
    /\ Stored(tl[1].key) = tl[1].value
    /\ PageOf(LeafOf(tl[1].key)).count = 1

\* ------------------------------------------------------------ the order of root growth
\* C36 as stated: root growth writes the new root (level of the old root + 1,
\* count 2, the separator, the old root and the new sibling as children) and
\* increments treeHeight before it assigns root, so that treeHeight has its
\* new value in the step that assigns root, and no thread that has read the
\* new root reads the old treeHeight; the grower holds the new root
\* exclusively from the assignment until it has unfixed the three pages.
C36_RootAssignedLast ==
    /\ [](\A t \in Threads :
            ~(pc[t] = "root_mode" /\ tl[t].currentFrame = root
                /\ treeHeight <= PageOf(root).level))
    /\ [](\A t \in Threads :
            pc[t] \in {"grow_root_height", "unfix_split"} /\ tl[t].parentFrame = root =>
                held[t][root] = "X")
    /\ [][root' # root =>
            /\ treeHeight' = data'[root'].level + 1
            /\ data'[root'].count = 2
            /\ data'[root'].level = data[root].level + 1
            /\ data'[root'].children[1] = root
            /\ \E t \in Threads :
                 /\ held[t][root'] = "X"
                 /\ data'[root'].keys = <<tl[t].splitKey>>
                 /\ data'[root'].children[2] = tl[t].rightBf]_vars

\* ------------------------------------------------------------ one frame per pid
\* The frame of p as the page table holds it.
FrameOf(p) == <<pageState[p], isDirty[p], dataPtr[p], pageLatch[p], loadingLatch[p]>>

\* C37: the page table holds one frame per pid ever fixed: every call that is
\* past getBufferFrame has the frame of its pid in the table; a frame is added
\* only by a call for that pid and only when the table has none; the second
\* look of a call that missed leaves the frame another call has created in
\* the meantime as it is, so that both calls work on that frame; and a frame
\* once created is never removed, neither by an eviction nor when the fix
\* that created it fails with buffer_full_error.
C37_OneFramePerPid ==
    /\ [](\A t \in Threads :
            pc[t] \notin {"idle", "getBufferFrame", "getBufferFrame_contains",
                          "getBufferFrame_lock", "getBufferFrame_emplace"} =>
                call[t].page_id \in pageTable)
    /\ [][/\ pageTable \subseteq pageTable'
          /\ \A p \in pageTable' \ pageTable :
                /\ pageTable' = pageTable \cup {p}
                /\ \E t \in Threads : pc[t] = "getBufferFrame_emplace" /\ call[t].page_id = p
                /\ pageState'[p] = "NOT_LOADED"
          /\ \A t \in Threads :
                (/\ pc[t] = "getBufferFrame_emplace"
                 /\ pc'[t] # pc[t]
                 /\ call[t].page_id \in pageTable) =>
                    FrameOf(call[t].page_id)' = FrameOf(call[t].page_id)]_vars

\* Both threads missed on the same pid; thread 2 has created the frame and
\* loaded the page, and thread 1 is about to take its second look; the frame
\* of the other pid has stayed in the table although its page is not loaded.
C37_Witness ==
    /\ pc[1] = "getBufferFrame_emplace"
    /\ call[1].page_id \in pageTable
    /\ held[2][call[1].page_id] # "-"
    /\ Loaded(call[1].page_id)
    /\ \E q \in pageTable : q # call[1].page_id /\ pageState[q] = "NOT_LOADED"

\* ------------------------------------------------------------ minted page ids
\* The page ids a thread has minted in the split it is in.
Minted(t) == {tl[t].rightBf, tl[t].newRoot} \ {NullFrame}

\* C38: create_new_node returns pairwise distinct page ids, also when several
\* splitting threads call it: every call increases nodeCount by exactly one
\* and returns the page id with the segment id of the tree and the count
\* before the call as its page id within the segment; that page id is not the
\* page id of a node of the tree, not one another call has returned, and no
\* page of it has ever been fixed; every page id in use has been minted from
\* a smaller count.
C38_MintedPidsDistinct ==
    /\ [](/\ \A p \in Subtree(root, MaxNodes) \cup UNION {Minted(t) : t \in Threads} :
                /\ get_segment_id(p) = segment_id
                /\ get_segment_page_id(p) < nodeCount
          /\ \A t \in Threads :
                /\ \A u \in Threads \ {t} : Minted(t) \cap Minted(u) = {}
                /\ tl[t].rightBf # NullFrame => tl[t].rightBf # tl[t].newRoot)
    /\ [][nodeCount' # nodeCount =>
            /\ nodeCount' = nodeCount + 1
            /\ \E t \in Threads :
                 /\ Minted(t)' = Minted(t) \cup {MakePid(segment_id, nodeCount)}
                 /\ \A p \in Minted(t)' \ Minted(t) :
                       /\ get_segment_id(p) = segment_id
                       /\ get_segment_page_id(p) = nodeCount
                       /\ p \notin pageTable
                       /\ p \notin Subtree(root, MaxNodes)
                       /\ \A u \in Threads : p \notin Minted(u)]_vars

\* Thread 1 has minted the page id of a new sibling, after earlier splits,
\* while thread 2 is in the exclusive pass of an insert of its own.
C38_Witness ==
    /\ pc[1] = "fix_right"
    /\ tl[1].rightBf = MakePid(segment_id, nodeCount - 1)
    /\ nodeCount >= 4
    /\ tl[2].op = "insert"
    /\ tl[2].exclusive
    /\ ~Idle(2)

\* ------------------------------------------------------------ SpecHold: clients with a bounded number of fixed pages
\* MaxThreads clients fix and unfix pages, latch by latch as in SpecLatch.  A
\* client has at most MaxHeld pages fixed at any instant, the page it is fixing
\* included (an operation of the tree: three), and page_count is MaxHeld times
\* the number of threads; there is one page id more than page_count.
PageCountHold == MaxHeld * MaxThreads
HoldPids == {MakePid(segment_id, i) : i \in 0..PageCountHold}

Hold_Fix(t) ==
    /\ Cardinality(HeldBy(t)) < MaxHeld
    /\ \E p \in HoldPids, exclusive \in BOOLEAN : fix_page(t, p, exclusive)

Hold_Unfix(t) ==
    /\ Idle(t)
    /\ \E p \in HoldPids :
         /\ held[t][p] # "-"
         /\ unfix_page(t, p, FALSE)
    /\ UNCHANGED <<pageCount, pageTable, pageState, dataPtr, data, disk, loadingLatch,
                   fifoList, lruList, pc, call>>

InitHold ==
    /\ pageCount = PageCountHold
    /\ pageTable = {}
    /\ pageState = [p \in HoldPids |-> "NOT_LOADED"]
    /\ isDirty = [p \in HoldPids |-> FALSE]
    /\ dataPtr = [p \in HoldPids |-> "null"]
    /\ data = [p \in HoldPids |-> ZeroPage]
    /\ disk = [p \in HoldPids |-> ZeroPage]
    /\ pageLatch = [p \in HoldPids |-> Latch]
    /\ loadingLatch = [p \in HoldPids |-> {}]
    /\ fifoList = <<>>
    /\ lruList = <<>>
    /\ pc = [t \in Threads |-> "idle"]
    /\ call = [t \in Threads |-> NoCall]
    /\ held = [t \in Threads |-> [p \in HoldPids |-> "-"]]
    /\ root = NullFrame
    /\ nodeCount = 0
    /\ treeHeight = 0
    /\ tl = [t \in Threads |-> NoOp]
    /\ model = [k \in Keys |-> 0]

NextHold ==
    /\ \E t \in Threads :
           \/ Hold_Fix(t)
           \/ Hold_Unfix(t)
           \/ BM_Catch(t)
           \/ LatchStep(t)
    /\ UNCHANGED treeVars

SpecHold == InitHold /\ [][NextHold]_vars

Resident == {fifoList[i] : i \in 1..Len(fifoList)} \cup {lruList[j] : j \in 1..Len(lruList)}

\* The call is in the scans of insertBufferFrame.
ScanPcs == {"insertBufferFrame_scan_fifo", "insertBufferFrame_lock_lru", "insertBufferFrame_scan_lru"}

C40_EvictedNodesComeBack ==
    /\ []((Idle(1) /\ tl[1].op = "lookup" /\ model[tl[1].key] # 0) =>
              tl[1].ret = model[tl[1].key])
    /\ [](\A p \in TreePids :
            /\ (Loaded(p) /\ held[1][p] = "-" /\ data[p] # disk[p]) => isDirty[p]
            /\ held[1][p] # "-" => (Loaded(p) /\ dataPtr[p] = "valid")
            /\ ~Loaded(p) => held[1][p] = "-")
    /\ [][\A p \in TreePids :
            (Loaded(p) /\ ~Loaded(p)') => (disk'[p] = data[p] /\ held[1][p] = "-")]_vars

\* The tree has more nodes than the buffer has pages; a lookup has returned
\* the value of a present key from a leaf that it has loaded itself (the leaf
\* is in the FIFO list: fixed once since it was loaded), so that the leaf was
\* evicted after the insert; another node that has been written is on disk only.
C40_Witness ==
    /\ Idle(1)
    /\ tl[1].op = "lookup"
    /\ tl[1].ret # 0
    /\ tl[1].ret = model[tl[1].key]
    /\ nodeCount > pageCount
    /\ pageState[LeafOf(tl[1].key)] = "IN_FIFO"
    /\ \E p \in TreePids : ~Loaded(p) /\ disk[p] # ZeroPage

====
